---- MODULE Spec2Model ----
(***************************************************************************)
(* Scoring engine of academiadiagnostica (modules/corrections.py), the     *)
(* results page that drives it (pages/3_Resultados.py) and the paginated   *)
(* answer form (modules/scales_forms.py).                                  *)
(*                                                                         *)
(* Python values are records [t, n, d, s]: t is the type tag ("none",      *)
(* "num", "str", "obj"), n/d an exact fraction for numbers (d = 1 for      *)
(* integers), s the text of a response label or numeric literal.  Group    *)
(* names and metric hints, which go through norm_key, are sequences of     *)
(* characters.  A call that can raise returns [exc, ...]: exc is "" on     *)
(* normal return and the exception name otherwise.                         *)
(***************************************************************************)
EXTENDS Integers, Sequences, FiniteSets, TLC

VARIABLES scale, answers, norm_group, use_item_mean, facet_arg,
          pc, exc, facet_stats, rows, classif, resolved, options,
          base_value, z_value, percentile, mean_for_z_out, history,
          session_state, form

vars == <<scale, answers, norm_group, use_item_mean, facet_arg,
          pc, exc, facet_stats, rows, classif, resolved, options,
          base_value, z_value, percentile, mean_for_z_out, history,
          session_state, form>>

-----------------------------------------------------------------------------
(* Python values                                                           *)

PyNone == [t |-> "none", n |-> 0, d |-> 1, s |-> ""]

RECURSIVE Gcd(_, _)
Gcd(a, b) == IF b = 0 THEN a ELSE Gcd(b, a % b)

Abs(x) == IF x < 0 THEN -x ELSE x

Reduced(n, d, g) ==
    [t |-> "num",
     n |-> IF d < 0 THEN -(n \div g) ELSE n \div g,
     d |-> IF d < 0 THEN -(d \div g) ELSE d \div g,
     s |-> ""]

\* The fraction n/d in lowest terms with a positive denominator.
Frac(n, d) == Reduced(n, d, Gcd(Abs(n), Abs(d)))

Num(n) == [t |-> "num", n |-> n, d |-> 1, s |-> ""]
Str(s) == [t |-> "str", n |-> 0, d |-> 1, s |-> s]
\* A JSON list or object: neither a string nor convertible to a number.
PyObj == [t |-> "obj", n |-> 0, d |-> 1, s |-> ""]

Add(a, b) == Frac(a.n * b.d + b.n * a.d, a.d * b.d)
Sub(a, b) == Frac(a.n * b.d - b.n * a.d, a.d * b.d)
Mul(a, b) == Frac(a.n * b.n, a.d * b.d)
Div(a, b) == Frac(a.n * b.d, a.d * b.n)
Leq(a, b) == a.n * b.d <= b.n * a.d
Less(a, b) == a.n * b.d < b.n * a.d

Ok(v) == [exc |-> "", v |-> v]
Raise(e) == [exc |-> e, v |-> PyNone]

\* Truncation toward zero, as int() does on a float.
Trunc(a) == IF a.n >= 0 THEN a.n \div a.d ELSE -((-a.n) \div a.d)

Floor(a) == IF a.n >= 0 THEN a.n \div a.d ELSE -((-a.n + a.d - 1) \div a.d)

\* Numeric literals the model uses as strings, with the value float() reads.
FloatLiterals == [lit \in {"3", "2.5"} |-> IF lit = "3" THEN Num(3) ELSE Frac(5, 2)]
\* int() accepts a string only when it is an integer literal.
IntLiterals == [lit \in {"3"} |-> 3]

\* float(v)
PyFloat(v) ==
    CASE v.t = "num" -> Ok(v)
      [] v.t = "str" -> IF v.s \in DOMAIN FloatLiterals
                        THEN Ok(FloatLiterals[v.s]) ELSE Raise("ValueError")
      [] OTHER -> Raise("TypeError")

\* int(v)
PyInt(v) ==
    CASE v.t = "num" -> Ok(Num(Trunc(v)))
      [] v.t = "str" -> IF v.s \in DOMAIN IntLiterals
                        THEN Ok(Num(IntLiterals[v.s])) ELSE Raise("ValueError")
      [] OTHER -> Raise("TypeError")

\* dict.get(key, default) on a mapping modelled as a function.
Get(map, key, default) == IF key \in DOMAIN map THEN map[key] ELSE default

EmptyMap == [k \in {} |-> PyNone]

\* The outcome of a loop that builds one entry per element: the exception of
\* the first entry that raised, else the entries.
Collect(out) ==
    IF \E i \in 1..Len(out) : out[i].exc # ""
    THEN [exc |-> out[CHOOSE i \in 1..Len(out) :
                        /\ out[i].exc # ""
                        /\ \A j \in 1..(i - 1) : out[j].exc = ""].exc,
          v |-> <<>>]
    ELSE [exc |-> "", v |-> out]

\* The least element of a set of positions, 0 for the empty set.
FirstOf(hits) ==
    IF hits = {} THEN 0 ELSE CHOOSE i \in hits : \A j \in hits : i <= j

-----------------------------------------------------------------------------
(* utils/normalize.py: strings are sequences of characters                  *)

IsSpace(ch) == ch \in {" ", "\t"}

\* str.lower() on the characters of the model's alphabet.
Lower(ch) ==
    CASE ch = "A" -> "a" [] ch = "C" -> "c" [] ch = "L" -> "l"
      [] ch = "M" -> "m" [] ch = "O" -> "o" [] ch = "R" -> "r"
      [] ch = "S" -> "s" [] ch = "T" -> "t" [] ch = "W" -> "w"
      [] ch = "Á" -> "á" [] ch = "É" -> "é" [] ch = "Í" -> "í"
      [] ch = "Ó" -> "ó"
      [] OTHER -> ch

\* NFKD decomposition followed by removal of the combining marks.
Unaccent(ch) ==
    CASE ch = "á" -> "a" [] ch = "Á" -> "A"
      [] ch = "é" -> "e" [] ch = "É" -> "E"
      [] ch = "í" -> "i" [] ch = "Í" -> "I"
      [] ch = "ó" -> "o" [] ch = "Ó" -> "O"
      [] OTHER -> ch

strip_accents(text) == [i \in 1..Len(text) |-> Unaccent(text[i])]

\* " ".join(text.strip().split()): drop leading and trailing whitespace and
\* replace every inner run of whitespace by one space.
RECURSIVE Collapse(_, _, _)
Collapse(text, i, acc) ==
    IF i > Len(text) THEN acc
    ELSE IF IsSpace(text[i]) THEN Collapse(text, i + 1, acc)
    ELSE IF acc # <<>> /\ i > 1 /\ IsSpace(text[i - 1])
         THEN Collapse(text, i + 1, acc \o <<" ", text[i]>>)
         ELSE Collapse(text, i + 1, Append(acc, text[i]))

collapse_whitespace(text) == Collapse(text, 1, <<>>)

LowerAll(text) == [i \in 1..Len(text) |-> Lower(text[i])]

norm_key(text) == strip_accents(LowerAll(collapse_whitespace(text)))

-----------------------------------------------------------------------------
(* modules/corrections.py                                                   *)

\* The words use_item_mean_for_z recognises, as character sequences.
RawTokens ==
    { <<"r","a","w">>, <<"r","a","w","_","s","u","m">>, <<"s","u","m">>,
      <<"b","r","u","t","a">>, <<"b","r","u","t","o">>,
      <<"w","e","i","g","h","t","e","d","_","s","u","m">> }

MeanTokens ==
    { <<"m","e","a","n">>, <<"m","e","a","n","_","i","t","e","m","s">>,
      <<"m","e","d","i","a">>, <<"m","e","d","i","a","_","i","t","e","n","s">>,
      <<"i","t","e","m","_","m","e","a","n">>,
      <<"w","e","i","g","h","t","e","d","_","m","e","a","n">>,
      <<"w","e","i","g","h","t","e","d","_","i","t","e","m","s","_","m","e","a","n">> }

\* Lines 25-30.  An absent, null or empty hint is the empty sequence: `or`
\* skips all three.
metric_hint(scale_ref) ==
    IF scale_ref.z_from # <<>> THEN scale_ref.z_from
    ELSE IF scale_ref.z_metric # <<>> THEN scale_ref.z_metric
    ELSE scale_ref.norm_metric

\* token_selects_mean selecting the item mean for the mean tokens only.
token_selects_mean_strict(k) == k \in MeanTokens

\* Lines 32-44 on the normalized hint k.
token_selects_mean(k) ==
    IF k \in RawTokens THEN FALSE
    ELSE IF k \in MeanTokens THEN TRUE
    ELSE TRUE

use_item_mean_for_z(scale_ref) == token_selects_mean(norm_key(metric_hint(scale_ref)))

MaxOf(S) == CHOOSE m \in S : \A x \in S : x <= m

\* Lines 339-344: max(int(v) for v in response_map.values()), and 3 when
\* max() or any int(v) raises.
max_val_of(response_map) ==
    IF DOMAIN response_map = {} THEN 3
    ELSE IF \E k \in DOMAIN response_map : PyInt(response_map[k]).exc # ""
    THEN 3
    ELSE MaxOf({PyInt(response_map[k]).v.n : k \in DOMAIN response_map})

\* Line 233 on i = int(v).
reversed_int(i, max_val) == IF i.exc # "" THEN i ELSE Ok(Num(max_val - i.v.n))

_reverse_value(v, max_val) ==
    IF v.t = "none" THEN Ok(PyNone) ELSE reversed_int(PyInt(v), max_val)

\* Lines 379-382 on f = float(w).
float_or_one(f) == IF f.exc # "" THEN Num(1) ELSE f.v

\* item_weight with the precedence swapped: the global entry wins.
item_weight_global_first(facet_weights, global_weights, item) ==
    float_or_one(PyFloat(Get(global_weights, item, Get(facet_weights, item, Num(1)))))

\* The weight of lines 378-382: facet entry, else global entry, else 1.0;
\* an entry float() rejects becomes 1.0.
item_weight(facet_weights, global_weights, item) ==
    float_or_one(PyFloat(Get(facet_weights, item, Get(global_weights, item, Num(1)))))

\* The outcomes of one pass of the item loop.
Skipped == [kind |-> "skip", exc |-> "", val |-> PyNone, wval |-> PyNone]
Failed(e) == [kind |-> "raise", exc |-> e, val |-> PyNone, wval |-> PyNone]

\* Line 368 on i = int(raw).
int_answer(i) == IF i.exc # "" THEN Failed(i.exc) ELSE [Skipped EXCEPT !.kind = "val", !.val = i.v]

\* answer_value with the unknown-label check of lines 364-365 left out: an
\* unknown label scores 0 instead of being skipped.
answer_value_unknown_scored(response_map, raw) ==
    IF raw.t = "none" THEN Skipped
    ELSE IF raw.t = "str"
    THEN [Skipped EXCEPT !.kind = "val", !.val = Get(response_map, raw.s, Num(0))]
    ELSE int_answer(PyInt(raw))

\* Lines 359-368: the value of the answer `raw`.  kind is "skip" (continue),
\* "raise", or "val" with the value in val.
answer_value(response_map, raw) ==
    IF raw.t = "none" THEN Skipped
    ELSE IF raw.t = "str"
    THEN IF raw.s \notin DOMAIN response_map
         THEN Skipped
         ELSE [Skipped EXCEPT !.kind = "val", !.val = response_map[raw.s]]
    ELSE int_answer(PyInt(raw))

\* Lines 374-385 on f = float(val): the scored value and its weighted value.
scored_float(scale_ref, fdata, item, f) ==
    IF f.exc # "" THEN Failed(f.exc)
    ELSE [kind |-> "scored", exc |-> "", val |-> f.v,
          wval |-> Mul(f.v, IF scale_ref.apply_item_weights
                            THEN item_weight(fdata.item_weights,
                                             scale_ref.item_weights, item)
                            ELSE Num(1))]

\* Lines 374-375 on val, the possibly reversed value.
scored_value(scale_ref, fdata, item, val) ==
    IF val.exc # "" THEN Failed(val.exc)
    ELSE scored_float(scale_ref, fdata, item, PyFloat(val.v))

\* Lines 370-372 on a, the outcome of answer_value.
scored_answer(scale_ref, fdata, item, a) ==
    IF a.kind # "val" THEN a
    ELSE scored_value(scale_ref, fdata, item,
                      IF item \in scale_ref.reverse_items
                      THEN _reverse_value(a.val, max_val_of(scale_ref.response_map))
                      ELSE Ok(a.val))

\* One pass of the loop body of lines 358-385 for `item`: kind is "skip"
\* (continue), "raise" or "scored" with the value and the weighted value.
score_item(scale_ref, answer_set, fdata, item) ==
    scored_answer(scale_ref, fdata, item,
                  answer_value(scale_ref.response_map, Get(answer_set, item, PyNone)))

\* The loop over item_ids: acc carries scored_vals' length and both sums.
RECURSIVE score_items(_, _, _, _, _)
RECURSIVE score_step(_, _, _, _, _, _)
score_step(scale_ref, answer_set, fdata, i, acc, r) ==
    CASE r.kind = "raise" -> [acc EXCEPT !.exc = r.exc]
      [] r.kind = "skip" -> score_items(scale_ref, answer_set, fdata, i + 1, acc)
      [] OTHER ->
           score_items(scale_ref, answer_set, fdata, i + 1,
                       [acc EXCEPT !.n = @ + 1,
                                   !.unweighted_sum = Add(@, r.val),
                                   !.weighted_sum = Add(@, r.wval)])

score_items(scale_ref, answer_set, fdata, i, acc) ==
    IF i > Len(fdata.items) THEN acc
    ELSE score_step(scale_ref, answer_set, fdata, i, acc,
                    score_item(scale_ref, answer_set, fdata, fdata.items[i]))

\* facet_mean taken from the weighted sum.
facet_mean_weighted(acc, with_mean) ==
    IF with_mean THEN Div(acc.weighted_sum, Num(acc.n)) ELSE PyNone

\* Line 392: mean_items of a facet with at least one scored item.
facet_mean(acc, with_mean) ==
    IF with_mean THEN Div(acc.unweighted_sum, Num(acc.n)) ELSE PyNone

\* facet_result reporting the accumulated sum for a facet with no scored item.
facet_result_empty_sum(fdata, with_mean, acc) ==
    [exc |-> acc.exc,
     faceta |-> fdata.id,
     raw_sum |-> acc.weighted_sum,
     mean_items |-> IF acc.n = 0 THEN PyNone ELSE facet_mean(acc, with_mean),
     n_answered |-> acc.n,
     n_items |-> Len(fdata.items)]

\* Lines 387-399 on acc, the state of the item loop at its end.
facet_result(fdata, with_mean, acc) ==
    [exc |-> acc.exc,
     faceta |-> fdata.id,
     raw_sum |-> IF acc.n = 0 THEN PyNone ELSE acc.weighted_sum,
     mean_items |-> IF acc.n = 0 THEN PyNone ELSE facet_mean(acc, with_mean),
     n_answered |-> acc.n,
     n_items |-> Len(fdata.items)]

score_facet(scale_ref, answer_set, with_mean, fdata) ==
    facet_result(fdata, with_mean,
                 score_items(scale_ref, answer_set, fdata, 1,
                             [exc |-> "", n |-> 0,
                              unweighted_sum |-> Num(0), weighted_sum |-> Num(0)]))

\* score_scales: [exc, v] with v the per-facet statistics in declaration
\* order; scale["facets"] raises KeyError when the mapping is absent.
score_scales(scale_ref, answer_set, with_mean) ==
    IF ~scale_ref.has_facets THEN [exc |-> "KeyError", v |-> <<>>]
    ELSE Collect([i \in 1..Len(scale_ref.facets) |->
                    score_facet(scale_ref, answer_set, with_mean, scale_ref.facets[i])])

\* Position of the entry of the ordered mapping `norms` with key k (0 when
\* there is none), and of the first whose normalized key is target.
ExactAt(norms, k) == FirstOf({i \in 1..Len(norms) : norms[i].key = k})

\* InsensitiveAt comparing the raw keys with the normalized target.
InsensitiveAt_raw_keys(norms, target) ==
    FirstOf({i \in 1..Len(norms) : norms[i].key = target})

InsensitiveAt(norms, target) ==
    FirstOf({i \in 1..Len(norms) : norm_key(norms[i].key) = target})

FacetAt(scale_ref, facet) ==
    FirstOf({i \in 1..Len(scale_ref.facets) : scale_ref.facets[i].id = facet})

Params(e) == [exc |-> "", mean |-> e.mean, sd |-> e.sd]

\* norm_entry_index without the default_norm_group step of lines 209-216.
norm_entry_index_no_default(norms, group, gdef) ==
    IF norms = <<>> THEN 0
    ELSE IF ExactAt(norms, group) # 0 THEN ExactAt(norms, group)
    ELSE IF InsensitiveAt(norms, norm_key(group)) # 0
      THEN InsensitiveAt(norms, norm_key(group))
    ELSE 1

\* Lines 196-219: the position in `norms` of the entry whose parameters are
\* returned, 0 when `norms` is absent, null or empty (the empty sequence).
\* `if gdef:` skips an absent or empty default group (the empty sequence).
norm_entry_index(norms, group, gdef) ==
    IF norms = <<>> THEN 0
    ELSE IF ExactAt(norms, group) # 0 THEN ExactAt(norms, group)
    ELSE IF InsensitiveAt(norms, norm_key(group)) # 0
      THEN InsensitiveAt(norms, norm_key(group))
    ELSE IF gdef # <<>> /\ ExactAt(norms, gdef) # 0 THEN ExactAt(norms, gdef)
    ELSE IF gdef # <<>> /\ InsensitiveAt(norms, norm_key(gdef)) # 0
      THEN InsensitiveAt(norms, norm_key(gdef))
    ELSE 1

\* Lines 199-222 on k, the position norm_entry_index found.
entry_params(fdata, k) == IF k # 0 THEN Params(fdata.norms[k]) ELSE Params(fdata)

\* _get_norm_params: [exc, mean, sd]; scale["facets"][facet] raises KeyError
\* for a facet the instrument does not declare.
_get_norm_params(scale_ref, facet, group) ==
    IF ~scale_ref.has_facets \/ FacetAt(scale_ref, facet) = 0
    THEN [exc |-> "KeyError", mean |-> PyNone, sd |-> PyNone]
    ELSE entry_params(scale_ref.facets[FacetAt(scale_ref, facet)],
                      norm_entry_index(scale_ref.facets[FacetAt(scale_ref, facet)].norms,
                                       group, scale_ref.default_norm_group))

\* Lines 48-54: the response_map values float() accepts, as numbers.
float_values(response_map) ==
    {PyFloat(response_map[k]).v :
        k \in {x \in DOMAIN response_map : PyFloat(response_map[x]).exc = ""}}

MinNum(S) == CHOOSE m \in S : \A x \in S : Leq(m, x)
MaxNum(S) == CHOOSE m \in S : \A x \in S : Leq(x, m)

\* Lines 55-57 on the parsed values.
range_of(vals) ==
    IF vals = {} THEN [vmin |-> Num(0), vmax |-> Num(3)]
    ELSE [vmin |-> MinNum(vals), vmax |-> MaxNum(vals)]

_response_range(scale_ref) == range_of(float_values(scale_ref.response_map))

\* Lines 74-79 for one source: the entries float() accepts, converted.
float_weights(weights) ==
    [k \in {x \in DOMAIN weights : PyFloat(weights[x]).exc = ""} |->
        PyFloat(weights[k]).v]

\* Lines 73-79: the global entries, overwritten by the facet's.
merged_weights(global_w, facet_w) ==
    [k \in DOMAIN global_w \cup DOMAIN facet_w |->
        IF k \in DOMAIN facet_w THEN facet_w[k] ELSE global_w[k]]

\* Line 69: the facet's item_weights, an empty map for an undeclared facet.
facet_weights_of(scale_ref, at) ==
    IF at = 0 THEN EmptyMap ELSE scale_ref.facets[at].item_weights

\* Lines 69 and 92: the facet's items, none for an undeclared facet.
facet_items_of(scale_ref, at) ==
    IF at = 0 THEN <<>> ELSE scale_ref.facets[at].items

get_facet_item_weights(scale_ref, facet) ==
    merged_weights(float_weights(scale_ref.item_weights),
                   float_weights(facet_weights_of(scale_ref,
                        IF scale_ref.has_facets THEN FacetAt(scale_ref, facet) ELSE 0)))

\* Lines 97-109: the bounds after the items from position i on.
RECURSIVE sum_bounds(_, _, _, _, _, _)
sum_bounds(items, i, wmap, rng, lo, hi) ==
    IF i > Len(items) THEN [lo |-> lo, hi |-> hi]
    ELSE IF Leq(Num(0), Get(wmap, items[i], Num(1)))
    THEN sum_bounds(items, i + 1, wmap, rng,
                    Add(lo, Mul(rng.vmin, Get(wmap, items[i], Num(1)))),
                    Add(hi, Mul(rng.vmax, Get(wmap, items[i], Num(1)))))
    ELSE sum_bounds(items, i + 1, wmap, rng,
                    Add(lo, Mul(rng.vmax, Get(wmap, items[i], Num(1)))),
                    Add(hi, Mul(rng.vmin, Get(wmap, items[i], Num(1)))))

\* Lines 112-114.
ordered_bounds(b) ==
    IF Leq(b.lo, b.hi) THEN [min_sum |-> b.lo, max_sum |-> b.hi]
    ELSE [min_sum |-> b.hi, max_sum |-> b.lo]

get_facet_sum_range(scale_ref, facet) ==
    ordered_bounds(
        sum_bounds(facet_items_of(scale_ref,
                        IF scale_ref.has_facets THEN FacetAt(scale_ref, facet) ELSE 0),
                   1, get_facet_item_weights(scale_ref, facet),
                   _response_range(scale_ref), Num(0), Num(0)))

\* Standard normal distribution function in percent, tabulated at the
\* half-integers -4, -3.5 .. 4 (thousandths of a percent); a z between two
\* grid points takes the value of the grid point below it.
PhiTable ==
    << 3, 23, 135, 621, 2275, 6681, 15866, 30854, 50000,
       69146, 84134, 93319, 97725, 99379, 99865, 99977, 99997 >>

\* phi_percent reading the table from its upper end: the upper tail.
phi_percent_upper_tail(h) ==
    Frac(PhiTable[9 - (IF h < -8 THEN -8 ELSE IF h > 8 THEN 8 ELSE h)], 1000)

\* Line 239 on h = floor(2 z).
phi_percent(h) ==
    Frac(PhiTable[(IF h < -8 THEN -8 ELSE IF h > 8 THEN 8 ELSE h) + 9], 1000)

\* Lines 241-245.
clamp_percent(pct) ==
    IF Less(pct, Num(0)) THEN Num(0)
    ELSE IF Less(Num(100), pct) THEN Num(100)
    ELSE pct

_z_to_percentile(z) ==
    IF z.t = "none" THEN PyNone
    ELSE clamp_percent(phi_percent(Floor(Mul(z, Num(2)))))

\* _compute_z without the guard on mean: a None mean counts as 0.
_compute_z_unguarded_mean(x, mean, sd) ==
    IF x.t = "none" \/ sd.t = "none" \/ sd.n = 0
    THEN PyNone
    ELSE Div(Sub(x, mean), sd)

\* `sd in (None, 0)` is true of 0 and of 0.0.
_compute_z(x, mean, sd) ==
    IF x.t = "none" \/ mean.t = "none" \/ sd.t = "none" \/ sd.n = 0
    THEN PyNone
    ELSE Div(Sub(x, mean), sd)

\* round(): y = x * sc lies in [lo, lo + 1] and twice = 2 (y - lo); the
\* nearest of lo and lo + 1 over sc, the even one on a tie.
round_between(twice, lo, sc) ==
    IF Less(twice, Num(1)) THEN Frac(lo, sc)
    ELSE IF Less(Num(1), twice) THEN Frac(lo + 1, sc)
    ELSE IF lo % 2 = 0 THEN Frac(lo, sc) ELSE Frac(lo + 1, sc)

round_scaled(y, sc) ==
    round_between(Sub(Mul(y, Num(2)), Num(2 * Floor(y))), Floor(y), sc)

\* round(x, k) with sc = 10^k.
Round(x, sc) == round_scaled(Mul(x, Num(sc)), sc)

RoundOpt(x, sc) == IF x.t = "none" THEN PyNone ELSE Round(x, sc)

\* Lines 270-281 on the z-score z.
row_with_z(stats, group, p, z) ==
    [exc |-> "",
     faceta |-> stats.faceta,
     media_itens |-> RoundOpt(stats.mean_items, 1000),
     z |-> RoundOpt(z, 1000),
     percentil |-> RoundOpt(_z_to_percentile(z), 10),
     bruta |-> RoundOpt(stats.raw_sum, 1000),
     norma |-> group,
     mean_ref |-> p.mean,
     sd_ref |-> p.sd]

\* Lines 268-269 on p, the outcome of _get_norm_params.
row_with_params(stats, group, mean_for_z, p) ==
    IF p.exc # ""
    THEN [row_with_z(stats, group, p, PyNone) EXCEPT !.exc = p.exc]
    ELSE row_with_z(stats, group, p,
                    _compute_z(IF mean_for_z THEN stats.mean_items ELSE stats.raw_sum,
                               p.mean, p.sd))

summarize_row(scale_ref, stats, group, mean_for_z) ==
    row_with_params(stats, group, mean_for_z,
                    _get_norm_params(scale_ref, stats.faceta, group))

summarize_with_norms(scale_ref, stats_seq, group, mean_for_z) ==
    Collect([i \in 1..Len(stats_seq) |->
               summarize_row(scale_ref, stats_seq[i], group, mean_for_z)])

\* The first rule of `classes` from position i on that applies to abs_z:
\* its position, 0 when none applies, -k when float(max_abs) raises at rule
\* k before any rule applies.
RECURSIVE first_rule(_, _, _)
first_rule(classes, abs_z, i) ==
    IF i > Len(classes) THEN 0
    ELSE IF classes[i].max_abs_z.t = "none" THEN i
    ELSE IF PyFloat(classes[i].max_abs_z).exc # "" THEN -i
    ELSE IF Leq(abs_z, PyFloat(classes[i].max_abs_z).v) THEN i
    ELSE first_rule(classes, abs_z, i + 1)

\* labelled_row giving label_below at z = 0.
labelled_row_positive_above(scale_ref, r, chosen) ==
    [exc |-> IF chosen < 0
             THEN PyFloat(scale_ref.classification[-chosen].max_abs_z).exc
             ELSE "",
     faceta |-> r.faceta,
     z |-> r.z,
     classificacao |->
         IF chosen <= 0 THEN PyNone
         ELSE IF r.z.n > 0 THEN scale_ref.classification[chosen].label_above
         ELSE scale_ref.classification[chosen].label_below]

\* Lines 313-324 on chosen, the position first_rule found.
labelled_row(scale_ref, r, chosen) ==
    [exc |-> IF chosen < 0
             THEN PyFloat(scale_ref.classification[-chosen].max_abs_z).exc
             ELSE "",
     faceta |-> r.faceta,
     z |-> r.z,
     classificacao |->
         IF chosen <= 0 THEN PyNone
         ELSE IF r.z.n >= 0 THEN scale_ref.classification[chosen].label_above
         ELSE scale_ref.classification[chosen].label_below]

\* classify_row comparing z itself, not abs(z), with the thresholds.
classify_row_signed(scale_ref, r) ==
    labelled_row(scale_ref, r,
                 IF r.z.t = "none" THEN 0
                 ELSE first_rule(scale_ref.classification, r.z, 1))

classify_row(scale_ref, r) ==
    labelled_row(scale_ref, r,
                 IF r.z.t = "none" THEN 0
                 ELSE first_rule(scale_ref.classification,
                                 Frac(Abs(r.z.n), r.z.d), 1))

build_classification_table(scale_ref, row_seq) ==
    Collect([i \in 1..Len(row_seq) |-> classify_row(scale_ref, row_seq[i])])

-----------------------------------------------------------------------------
(* pages/3_Resultados.py: helpers of the results page                       *)

BLANK == "__BLANK__"

\* _normalize_answers: None, "" and the blank sentinel become None.
_normalize_answers(answers_raw) ==
    [k \in DOMAIN answers_raw |->
        IF answers_raw[k].t = "none"
           \/ (answers_raw[k].t = "str" /\ answers_raw[k].s \in {"", BLANK})
        THEN PyNone ELSE answers_raw[k]]

\* str.strip()
RECURSIVE Strip(_)
Strip(text) ==
    IF text = <<>> THEN text
    ELSE IF IsSpace(text[1]) THEN Strip(Tail(text))
    ELSE IF IsSpace(text[Len(text)]) THEN Strip(SubSeq(text, 1, Len(text) - 1))
    ELSE text

\* All norm-group keys of the instrument in scan order (facets, then norms).
RECURSIVE AllNormKeys(_, _)
AllNormKeys(facets, i) ==
    IF i > Len(facets) THEN <<>>
    ELSE [j \in 1..Len(facets[i].norms) |-> facets[i].norms[j].key]
         \o AllNormKeys(facets, i + 1)

\* The scan of lines 136-144 of get_norm_group_options_from_facets: the
\* stripped spellings kept, one per normalized key, in scan order.
RECURSIVE ScanGroups(_, _, _)
RECURSIVE ScanGroup(_, _, _, _)
ScanGroup(keys, i, groups, raw) ==
    IF \E j \in 1..Len(groups) : norm_key(groups[j]) = norm_key(raw)
    THEN ScanGroups(keys, i + 1, groups)
    ELSE ScanGroups(keys, i + 1, Append(groups, raw))

ScanGroups(keys, i, groups) ==
    IF i > Len(keys) THEN groups ELSE ScanGroup(keys, i, groups, Strip(keys[i]))

FallbackGroups ==
    { <<"c","l","i","n","i","c","o">>,
      <<"c","o","m","u","n","i","t","a","r","i","o">>,
      <<"t","o","t","a","l">> }

\* Lines 48-66 on the groups the scan found.
offered_groups(groups) ==
    IF groups # <<>> THEN {groups[i] : i \in 1..Len(groups)} ELSE FallbackGroups

\* _select_norm_group_from_facets: the groups the radio offers.
SelectableGroups(scale_ref) ==
    offered_groups(ScanGroups(AllNormKeys(scale_ref.facets, 1), 1, <<>>))

\* The lower-case letters in code-point order.
Letters ==
    <<"a","b","c","d","e","f","g","h","i","j","k","l","m","n","o","p",
    "q","r","s","t","u","v","w","x","y","z">>

\* ord(ch) for the characters of normalized keys: space, underscore and
\* the lower-case letters.
CodePoint(ch) ==
    IF ch = " " THEN 32
    ELSE IF ch = "_" THEN 95
    ELSE 96 + FirstOf({i \in 1..Len(Letters) : Letters[i] = ch})

\* a < b on Python strings.
RECURSIVE str_less(_, _)
str_less(a, b) ==
    IF a = <<>> THEN b # <<>>
    ELSE IF b = <<>> THEN FALSE
    ELSE IF Head(a) = Head(b) THEN str_less(Tail(a), Tail(b))
    ELSE CodePoint(Head(a)) < CodePoint(Head(b))

\* Lines 124-134: normalized key and label, in the table's order.
pretty ==
    << << <<"c","l","i","n","i","c","o">>,
          <<"C","l","í","n","i","c","o">> >>,
       << <<"c","l","í","n","i","c","o">>,
          <<"C","l","í","n","i","c","o">> >>,
       << <<"c","o","m","u","n","i","t","a","r","i","o">>,
          <<"C","o","m","u","n","i","t","á","r","i","o">> >>,
       << <<"c","o","m","u","n","i","t","á","r","i","o">>,
          <<"C","o","m","u","n","i","t","á","r","i","o">> >>,
       << <<"t","o","t","a","l">>,
          <<"T","o","t","a","l">> >>,
       << <<"a","l","t","o"," ","r","i","s","c","o">>,
          <<"A","l","t","o"," ","R","i","s","c","o">> >>,
       << <<"n","o","r","m","a","t","i","v","o">>,
          <<"N","o","r","m","a","t","i","v","o">> >>,
       << <<"c","o","n","t","r","o","l","e">>,
          <<"C","o","n","t","r","o","l","e">> >>,
       << <<"a","u","t","i","s","t","a","s">>,
          <<"A","u","t","i","s","t","a","s">> >> >>

\* Line 146.
order_pref ==
    << <<"c","l","i","n","i","c","o">>,
       <<"c","o","m","u","n","i","t","a","r","i","o">>,
       <<"t","o","t","a","l">>,
       <<"c","o","n","t","r","o","l","e">>,
       <<"a","u","t","i","s","t","a","s">> >>

\* pretty.get(k, g), line 154.
pretty_get(k, g) ==
    IF \E i \in 1..Len(pretty) : pretty[i][1] = k
    THEN pretty[FirstOf({i \in 1..Len(pretty) : pretty[i][1] = k})][2]
    ELSE g

\* group_rank placing every group after the preferred ones.
group_rank_unranked(k) == 99

\* Line 150: order_pref.index(k) when k is preferred, else 99.
group_rank(k) ==
    IF \E i \in 1..Len(order_pref) : order_pref[i] = k
    THEN FirstOf({i \in 1..Len(order_pref) : order_pref[i] = k}) - 1
    ELSE 99

\* The tuple comparison of the sort keys (rank, k) of lines 149-152.
sort_key_less(ka, kb) ==
    \/ group_rank(ka) < group_rank(kb)
    \/ group_rank(ka) = group_rank(kb) /\ str_less(ka, kb)

\* sorted() of lines 147-153 is stable: g goes before the first element
\* whose key is greater than its own.
RECURSIVE InsertSorted(_, _)
InsertSorted(sorted, g) ==
    IF sorted = <<>> THEN <<g>>
    ELSE IF sort_key_less(norm_key(g), norm_key(Head(sorted)))
         THEN <<g>> \o sorted
         ELSE <<Head(sorted)>> \o InsertSorted(Tail(sorted), g)

RECURSIVE SortGroups(_, _, _)
SortGroups(groups, i, acc) ==
    IF i > Len(groups) THEN acc
    ELSE SortGroups(groups, i + 1, InsertSorted(acc, groups[i]))

\* Lines 154-155 on the sorted groups.
options_of(groups) ==
    [groups |-> groups,
     labels |-> [i \in 1..Len(groups) |-> pretty_get(norm_key(groups[i]), groups[i])]]

\* get_norm_group_options_from_facets: an absent facets mapping is scanned
\* as an empty one.
get_norm_group_options_from_facets(scale_ref) ==
    options_of(SortGroups(ScanGroups(AllNormKeys(IF scale_ref.has_facets
                                                 THEN scale_ref.facets ELSE <<>>, 1),
                                     1, <<>>),
                          1, <<>>))

-----------------------------------------------------------------------------
(* Bounded instrument definitions and answer sets                           *)

MaxItems == 2
MaxNorms == 2

Items == 1..MaxItems

Facet(id, items, item_weights, norms, mean, sd) ==
    [id |-> id, items |-> items, item_weights |-> item_weights,
     norms |-> norms, mean |-> mean, sd |-> sd]

Rule(max_abs_z, above, below) ==
    [max_abs_z |-> max_abs_z, label_above |-> Str(above), label_below |-> Str(below)]

BaseScale ==
    [has_facets |-> TRUE,
     response_map |-> [l \in {"Nunca", "Sempre"} |-> IF l = "Nunca" THEN Num(0) ELSE Num(3)],
     reverse_items |-> {},
     apply_item_weights |-> FALSE,
     item_weights |-> EmptyMap,
     facets |-> <<>>,
     default_norm_group |-> <<>>,
     classification |-> <<>>,
     z_from |-> <<>>, z_metric |-> <<>>, norm_metric |-> <<>>]

\* Facet F1 holds items 1..k and facet F2 the rest (F2 may be empty).
Layout(k, w1, norms1, norms2) ==
    << Facet("F1", [i \in 1..k |-> i], w1, norms1, PyNone, PyNone),
       Facet("F2", [i \in 1..(MaxItems - k) |-> k + i], EmptyMap, norms2, PyNone, PyNone) >>

\* response_map values: integers, a fraction, a numeric and a non-numeric
\* string, JSON null; the maps start at 0, at a fraction or at 1.
ResponseValues == {Num(1), Num(3), Frac(5, 2), Str("3"), Str("abc"), PyNone}

ResponseMaps ==
    {EmptyMap}
    \cup {[l \in {"Nunca", "Sempre"} |-> IF l = "Nunca" THEN Num(0) ELSE v] :
            v \in ResponseValues}
    \cup {[l \in {"Nunca", "Sempre"} |-> IF l = "Nunca" THEN v ELSE Num(3)] :
            v \in {Frac(1, 2), Num(1)}}

\* item_weights maps (keys are str(item)): absent, numeric, negative
\* fraction, unparsable string, null.
GlobalWeightMaps ==
    {EmptyMap} \cup {[k \in {1} |-> w] : w \in {Num(2), Str("abc")}}

FacetWeightMaps ==
    {EmptyMap} \cup {[k \in {1} |-> w] : w \in {Frac(-1, 2), Str("2.5"), PyNone}}

\* Answers: unanswered, the two labels, an unknown label, an integer, a
\* float and a value int() rejects.
AnswerValues ==
    {PyNone, Str("Nunca"), Str("Sempre"), Str("Talvez"), Num(2), Frac(3, 2), PyObj}

\* An unanswered item is absent from the answer set or mapped to None.
AnswerSets == UNION {[S -> AnswerValues] : S \in SUBSET Items}

ScoreScale(rm, rev, aw, gw, fw, k) ==
    [BaseScale EXCEPT !.response_map = rm, !.reverse_items = rev,
                      !.apply_item_weights = aw, !.item_weights = gw,
                      !.facets = Layout(k, fw, <<>>, <<>>)]

NoParams == [exc |-> "", mean |-> PyNone, sd |-> PyNone]

NoOptions == [groups |-> <<>>, labels |-> <<>>]

\* st.session_state before the form was ever rendered: no page key, no
\* answers key, no signature key, the scroll flag unset.
NoSession ==
    [page |-> 0, has_answers |-> FALSE, answers |-> EmptyMap,
     initialized |-> FALSE, signature |-> <<>>, scroll |-> FALSE]

\* No run of render_scale_form yet.
NoForm ==
    [data |-> <<>>, cfg |-> <<>>, current_page |-> 0, total_pages |-> 0,
     submitted |-> FALSE, go_next |-> FALSE, finished |-> FALSE,
     returned |-> EmptyMap]

Idle ==
    /\ pc = "start" /\ exc = ""
    /\ facet_stats = <<>> /\ rows = <<>> /\ classif = <<>>
    /\ resolved = NoParams
    /\ options = NoOptions
    /\ base_value = PyNone /\ z_value = PyNone /\ percentile = PyNone
    /\ mean_for_z_out = TRUE
    /\ history = <<>>
    /\ session_state = NoSession /\ form = NoForm

-----------------------------------------------------------------------------
(* score_scales called directly                                             *)

InitScore ==
    /\ \E rm \in ResponseMaps, rev \in SUBSET {1}, aw \in BOOLEAN,
          gw \in GlobalWeightMaps, fw \in FacetWeightMaps, k \in {1, MaxItems} :
            scale = ScoreScale(rm, rev, aw, gw, fw, k)
    /\ answers \in AnswerSets
    /\ use_item_mean \in BOOLEAN
    /\ norm_group = <<>> /\ facet_arg = ""
    /\ Idle

\* The call returns r.v or raises r.exc.
ScoreReturns(r) ==
    /\ pc' = IF r.exc = "" THEN "scored" ELSE "raised"
    /\ exc' = r.exc
    /\ facet_stats' = r.v

CallScoreScales ==
    /\ pc = "start"
    /\ ScoreReturns(score_scales(scale, answers, use_item_mean))
    /\ UNCHANGED <<session_state, form, history, mean_for_z_out, options,
                   base_value, z_value, percentile, scale, answers,
                   norm_group, use_item_mean, facet_arg, rows, classif,
                   resolved>>

NextScore == CallScoreScales

SpecScore == InitScore /\ [][NextScore]_vars

-----------------------------------------------------------------------------
(* Properties of score_scales (SpecScore)                                   *)

Range(seq) == {seq[i] : i \in 1..Len(seq)}

RECURSIVE SumFn(_, _)
SumFn(f, S) ==
    IF S = {} THEN Num(0)
    ELSE LET x == CHOOSE y \in S : TRUE IN Add(f[x], SumFn(f, S \ {x}))

FacetIndexes == 1..Len(scale.facets)

\* The answer of `item` is absent, None, or a label response_map lacks.
Unanswered(item) ==
    LET raw == Get(answers, item, PyNone)
    IN raw.t = "none" \/ (raw.t = "str" /\ raw.s \notin DOMAIN scale.response_map)

\* The items of the facet the call scored, with their scored values.
Answered(fdata) ==
    {item \in Range(fdata.items) :
        score_item(scale, answers, fdata, item).kind = "scored"}

ScoredValues(fdata) ==
    [item \in Answered(fdata) |-> score_item(scale, answers, fdata, item).val]

IsNumeric(v) == v.t = "num" \/ (v.t = "str" /\ v.s \in DOMAIN FloatLiterals)
NumericValue(v) == IF v.t = "num" THEN v ELSE FloatLiterals[v.s]

\* C2: an absent, None or unknown-label answer adds nothing and is not
\* counted: the call returns what it returns without those answers,
\* n_answered counts exactly the other items, and a call in which every
\* answer is of that kind does not raise.
TheoremC2 ==
    pc # "start" =>
        LET kept == {item \in DOMAIN answers : ~Unanswered(item)}
            r == score_scales(scale, [item \in kept |-> answers[item]], use_item_mean)
        IN /\ r.exc = exc /\ r.v = facet_stats
           /\ kept = {} => pc = "scored"
           /\ pc = "scored" =>
                \A i \in FacetIndexes :
                    facet_stats[i].n_answered =
                        Cardinality({item \in Range(scale.facets[i].items) :
                                        ~Unanswered(item)})

WitnessC2 ==
    /\ pc = "scored"
    /\ \E i \in FacetIndexes :
        /\ facet_stats[i].n_answered >= 1
        /\ \E item \in Range(scale.facets[i].items) :
              Get(answers, item, PyNone) = Str("Talvez")

\* C3: no numeric conversion failure surfaces: the call returns, and an item
\* whose answer has no numeric value is skipped like an unanswered one.
ClaimC3 ==
    pc # "start" =>
        /\ pc = "scored"
        /\ \A i \in FacetIndexes :
              facet_stats[i].n_answered =
                  Cardinality({item \in Range(scale.facets[i].items) :
                      /\ ~Unanswered(item)
                      /\ LET raw == answers[item]
                         IN IF raw.t = "str"
                            THEN IsNumeric(scale.response_map[raw.s])
                            ELSE raw.t = "num"})

\* The value C4 gives an answered item: the numeric answer itself or the
\* response_map value of its label, subtracted from max_val when reversed.
ClaimedValue(item) ==
    LET raw == answers[item]
        v == IF raw.t = "str" THEN NumericValue(scale.response_map[raw.s]) ELSE raw
    IN IF item \in scale.reverse_items
       THEN Sub(Num(max_val_of(scale.response_map)), v)
       ELSE v

\* C4: the unweighted sum of a facet (mean_items times n_answered) is the
\* sum of max_val - v over its reversed answered items and of v over the
\* others.
ClaimC4 ==
    (pc = "scored" /\ use_item_mean) =>
        \A i \in FacetIndexes :
            facet_stats[i].n_answered >= 1 =>
                Mul(facet_stats[i].mean_items, Num(facet_stats[i].n_answered))
                  = SumFn([item \in Answered(scale.facets[i]) |-> ClaimedValue(item)],
                          Answered(scale.facets[i]))

\* C5: max_val is the largest numeric value of response_map, and is the
\* default 3 when response_map has no numeric value.
ClaimC5 ==
    LET rm == scale.response_map
        numeric == {NumericValue(rm[k]) : k \in {l \in DOMAIN rm : IsNumeric(rm[l])}}
    IN Num(max_val_of(rm)) =
          IF numeric = {} THEN Num(3)
          ELSE CHOOSE m \in numeric : \A x \in numeric : Leq(x, m)

\* The weight C6 gives an item: the facet-level entry if present, else the
\* global entry, else 1.0, and 1.0 for an entry that is not a number.
ClaimedWeight(fdata, item) ==
    LET entry == IF item \in DOMAIN fdata.item_weights THEN fdata.item_weights[item]
                 ELSE IF item \in DOMAIN scale.item_weights THEN scale.item_weights[item]
                 ELSE Num(1)
    IN IF IsNumeric(entry) THEN NumericValue(entry) ELSE Num(1)

\* C6: raw_sum of a facet with an answered item is the sum of scored value
\* times weight when apply_item_weights is set, and the plain sum of the
\* scored values when it is not.
TheoremC6 ==
    pc = "scored" =>
        \A i \in FacetIndexes :
            LET fdata == scale.facets[i]
                vals == ScoredValues(fdata)
            IN facet_stats[i].n_answered >= 1 =>
                 facet_stats[i].raw_sum =
                    IF scale.apply_item_weights
                    THEN SumFn([item \in DOMAIN vals |->
                                  Mul(vals[item], ClaimedWeight(fdata, item))],
                               DOMAIN vals)
                    ELSE SumFn(vals, DOMAIN vals)

\* A facet whose item 1 has both a facet-level and a global weight was scored
\* with weights applied, and the weights changed the sum.
WitnessC6 ==
    /\ pc = "scored" /\ scale.apply_item_weights
    /\ 1 \in DOMAIN scale.item_weights
    /\ 1 \in DOMAIN scale.facets[1].item_weights
    /\ 1 \in Answered(scale.facets[1])
    /\ facet_stats[1].raw_sum # SumFn(ScoredValues(scale.facets[1]),
                                      Answered(scale.facets[1]))

\* C7: with use_item_mean, mean_items of a facet with an answered item is
\* the unweighted sum of the scored values over n_answered; without it,
\* mean_items is None for every facet.
TheoremC7 ==
    pc = "scored" =>
        \A i \in FacetIndexes :
            LET vals == ScoredValues(scale.facets[i])
            IN /\ (use_item_mean /\ facet_stats[i].n_answered >= 1) =>
                    facet_stats[i].mean_items =
                        Div(SumFn(vals, DOMAIN vals), Num(facet_stats[i].n_answered))
               /\ ~use_item_mean => facet_stats[i].mean_items = PyNone

\* A mean was computed for a facet whose weighted sum differs from its
\* unweighted sum.
WitnessC7 ==
    /\ pc = "scored" /\ use_item_mean /\ scale.apply_item_weights
    /\ facet_stats[1].n_answered >= 1
    /\ facet_stats[1].raw_sum # SumFn(ScoredValues(scale.facets[1]),
                                      Answered(scale.facets[1]))

\* C26: in every result score_scales returns, each facet's n_items is the
\* length of its declared item list, n_answered lies between 0 and n_items,
\* and raw_sum is None exactly when n_answered is 0.
TheoremC26 ==
    pc = "scored" =>
        /\ Len(facet_stats) = Len(scale.facets)
        /\ \A i \in FacetIndexes :
            /\ facet_stats[i].n_items = Len(scale.facets[i].items)
            /\ facet_stats[i].n_answered >= 0
            /\ facet_stats[i].n_answered <= facet_stats[i].n_items
            /\ (facet_stats[i].raw_sum = PyNone) <=> (facet_stats[i].n_answered = 0)

\* A returned result in which one facet with items has none answered and
\* another has some but not all of its items answered.
WitnessC26 ==
    /\ pc = "scored"
    /\ \E i \in FacetIndexes :
        /\ facet_stats[i].n_items > 0
        /\ facet_stats[i].n_answered = 0
        /\ facet_stats[i].raw_sum = PyNone
    /\ \E j \in FacetIndexes :
        /\ facet_stats[j].n_answered > 0
        /\ facet_stats[j].raw_sum # PyNone

\* The reverse items of the facet answered with a value v that float()
\* accepts and that lies between the least and the greatest value of a
\* response_map with at least one numeric value.
ReversedInRange(fdata) ==
    {item \in Range(fdata.items) \cap scale.reverse_items :
        LET a == answer_value(scale.response_map, Get(answers, item, PyNone))
            vals == float_values(scale.response_map)
        IN /\ a.kind = "val"
           /\ vals # {}
           /\ PyFloat(a.val).exc = ""
           /\ Leq(MinNum(vals), PyFloat(a.val).v)
           /\ Leq(PyFloat(a.val).v, MaxNum(vals))}

\* C30: reverse scoring maps the response scale onto itself: a reverse item
\* answered with v in [vmin, vmax] contributes max_val - v, which is again
\* in [vmin, vmax], and reversing that value gives v back.
ClaimC30 ==
    pc = "scored" =>
        \A i \in FacetIndexes :
            \A item \in ReversedInRange(scale.facets[i]) :
                LET v == answer_value(scale.response_map, Get(answers, item, PyNone)).val
                    vals == float_values(scale.response_map)
                    max_val == max_val_of(scale.response_map)
                    once == score_item(scale, answers, scale.facets[i], item).val
                IN /\ once = Sub(Num(max_val), PyFloat(v).v)
                   /\ Leq(MinNum(vals), once)
                   /\ Leq(once, MaxNum(vals))
                   /\ _reverse_value(once, max_val) = Ok(PyFloat(v).v)

\* Every item of the facet is answered with a label of response_map.
AllLabelled(fdata) ==
    \A item \in Range(fdata.items) :
        /\ item \in DOMAIN answers
        /\ answers[item].t = "str"
        /\ answers[item].s \in DOMAIN scale.response_map

\* C21: the bounds get_facet_sum_range returns are ordered, and the raw_sum
\* score_scales computes for a facet whose items are all answered with
\* labels of response_map lies between them.
ClaimC21 ==
    pc # "start" =>
        \A i \in FacetIndexes :
            LET bounds == get_facet_sum_range(scale, scale.facets[i].id)
            IN /\ Leq(bounds.min_sum, bounds.max_sum)
               /\ (/\ pc = "scored"
                   /\ AllLabelled(scale.facets[i])
                   /\ facet_stats[i].raw_sum # PyNone)
                     => /\ Leq(bounds.min_sum, facet_stats[i].raw_sum)
                        /\ Leq(facet_stats[i].raw_sum, bounds.max_sum)

\* C28: the weight score_scales applies to an item is the entry of
\* get_facet_item_weights for it, 1.0 when it has none.
ClaimC28 ==
    (pc # "start" /\ scale.apply_item_weights) =>
        \A i \in FacetIndexes :
            \A item \in Range(scale.facets[i].items) :
                item_weight(scale.facets[i].item_weights, scale.item_weights, item)
                  = Get(get_facet_item_weights(scale, scale.facets[i].id), item, Num(1))

-----------------------------------------------------------------------------
(* _get_norm_params called directly                                         *)

\* Norm-group names: spellings of two groups that differ in case, accent
\* and surrounding whitespace, and a third group.
NormKeys == { <<"C","l">>, <<"c","l">>, <<"T","ó">>, <<"t","o">> }

GroupNames == NormKeys \cup { <<" ","C","L">>, <<"t","O"," ">>, <<"x">> }

DefaultGroups == { <<>>, <<"c","l">>, <<"T","O">>, <<"x">> }

\* The entry at position i carries its position as its mean, or no
\* parameters at all.
NormEntries(i) ==
    {[key |-> k, mean |-> p[1], sd |-> p[2]] :
        k \in NormKeys, p \in {<<Num(i), Frac(3, 2)>>, <<PyNone, PyNone>>}}

\* The ordered `norms` mappings with at most n entries and distinct keys.
RECURSIVE NormsUpTo(_)
NormsUpTo(n) ==
    IF n = 0 THEN {<<>>}
    ELSE LET shorter == NormsUpTo(n - 1)
         IN shorter \cup
            {Append(ns, e) : ns \in {x \in shorter : Len(x) = n - 1},
                             e \in NormEntries(n)}

DistinctKeys(norms) ==
    \A i, j \in 1..Len(norms) : norms[i].key = norms[j].key => i = j

NormsChoices == {ns \in NormsUpTo(MaxNorms) : DistinctKeys(ns)}

NormScale(gdef, ns, mean, sd) ==
    [BaseScale EXCEPT !.default_norm_group = gdef,
                      !.facets = << Facet("F1", <<1>>, EmptyMap, ns, mean, sd),
                                    Facet("F2", <<>>, EmptyMap, <<>>, PyNone, PyNone) >>]

\* "F3" is a facet id the instrument does not declare.
FacetArgs == {"F1", "F2", "F3"}

InitNorm ==
    /\ \E gdef \in DefaultGroups, ns \in NormsChoices,
          m \in {<<PyNone, PyNone>>, <<Num(9), Num(2)>>} :
            scale = NormScale(gdef, ns, m[1], m[2])
    /\ facet_arg \in FacetArgs
    /\ norm_group \in GroupNames
    /\ answers = EmptyMap /\ use_item_mean = TRUE
    /\ Idle

\* The call returns (r.mean, r.sd) or raises r.exc.
NormParamsReturn(r) ==
    /\ pc' = IF r.exc = "" THEN "resolved" ELSE "raised"
    /\ exc' = r.exc
    /\ resolved' = r

CallGetNormParams ==
    /\ pc = "start"
    /\ NormParamsReturn(_get_norm_params(scale, facet_arg, norm_group))
    /\ UNCHANGED <<session_state, form, history, mean_for_z_out, options,
                   base_value, z_value, percentile, scale, answers,
                   norm_group, use_item_mean, facet_arg, facet_stats, rows,
                   classif>>

NextNorm == CallGetNormParams

SpecNorm == InitNorm /\ [][NextNorm]_vars

-----------------------------------------------------------------------------
(* Properties of _get_norm_params (SpecNorm)                                *)

Min(S) == CHOOSE m \in S : \A x \in S : m <= x

\* The facet record facet_arg names; only used when it is declared.
ArgFacet == scale.facets[CHOOSE i \in FacetIndexes : scale.facets[i].id = facet_arg]

Declared == \E i \in FacetIndexes : scale.facets[i].id = facet_arg

\* A z-less result row of the facet, as summarize_with_norms builds it.
NoZRow == [faceta |-> facet_arg, z |-> PyNone]

\* C9: the resolver returns for every facet id and group name; a facet with
\* neither norms nor mean/sd fields resolves to (None, None); and from
\* (None, None) the z-score, the percentile and the label are None.
ClaimC9 ==
    pc # "start" =>
        /\ pc = "resolved"
        /\ (ArgFacet.norms = <<>> /\ ArgFacet.mean = PyNone /\ ArgFacet.sd = PyNone)
              => (resolved.mean = PyNone /\ resolved.sd = PyNone)
        /\ (resolved.mean = PyNone /\ resolved.sd = PyNone) =>
              \A x \in {PyNone, Num(0), Frac(3, 2)} :
                  LET z == _compute_z(x, resolved.mean, resolved.sd)
                  IN /\ z = PyNone
                     /\ _z_to_percentile(z) = PyNone
                     /\ classify_row(scale, NoZRow).classificacao = PyNone
                     /\ classify_row(scale, NoZRow).exc = ""

\* The positions of the norms entries C10 names, in its order.
ClaimedEntry(norms, group, gdef) ==
    LET exact == {i \in 1..Len(norms) : norms[i].key = group}
        insensitive == {i \in 1..Len(norms) : norm_key(norms[i].key) = norm_key(group)}
        default_exact == {i \in 1..Len(norms) : gdef # <<>> /\ norms[i].key = gdef}
        default_insensitive ==
            {i \in 1..Len(norms) : gdef # <<>> /\ norm_key(norms[i].key) = norm_key(gdef)}
    IN IF exact # {} THEN Min(exact)
       ELSE IF insensitive # {} THEN Min(insensitive)
       ELSE IF default_exact # {} THEN Min(default_exact)
       ELSE IF default_insensitive # {} THEN Min(default_insensitive)
       ELSE IF Len(norms) > 0 THEN 1
       ELSE 0

\* C10: for a declared facet the resolver returns the parameters of the
\* first that exists of: exact match, first insensitive match, default
\* group (exact, then insensitive), first norms entry, the facet's own
\* mean/sd, (None, None).  With the requested group absent and the default
\* group present, the default group's parameters are returned.
TheoremC10 ==
    (pc # "start" /\ Declared) =>
        LET norms == ArgFacet.norms
            gdef == scale.default_norm_group
            k == ClaimedEntry(norms, norm_group, gdef)
        IN /\ pc = "resolved"
           /\ k # 0 => (resolved.mean = norms[k].mean /\ resolved.sd = norms[k].sd)
           /\ k = 0 => (resolved.mean = ArgFacet.mean /\ resolved.sd = ArgFacet.sd)
           /\ \A d \in 1..Len(norms) :
                (/\ norms[d].key = gdef
                 /\ \A i \in 1..Len(norms) : norm_key(norms[i].key) # norm_key(norm_group))
                => (resolved.mean = norms[d].mean /\ resolved.sd = norms[d].sd)

\* The requested group matches no entry, the default group is the second
\* entry, and its parameters (not the first entry's) were returned.
WitnessC10 ==
    /\ pc = "resolved" /\ facet_arg = "F1"
    /\ Len(scale.facets[1].norms) >= 2
    /\ scale.facets[1].norms[2].key = scale.default_norm_group
    /\ \A i \in 1..Len(scale.facets[1].norms) :
          norm_key(scale.facets[1].norms[i].key) # norm_key(norm_group)
    /\ scale.facets[1].norms[1].mean # PyNone
    /\ resolved.mean = Num(2)

\* The groups a caller could request instead of norm_group with the same
\* normalized key.
SameKeyGroups == {g \in GroupNames : norm_key(g) = norm_key(norm_group)}

\* No two keys of the facet's norms share a normalized key.
NormKeysDistinct(norms) ==
    \A i, j \in 1..Len(norms) :
        norm_key(norms[i].key) = norm_key(norms[j].key) => i = j

\* C11 as stated: for every instrument and facet, every requested name with
\* the normalized key of norm_group gives the result norm_group gave.
ClaimC11 ==
    pc # "start" =>
        \A g \in SameKeyGroups : _get_norm_params(scale, facet_arg, g) = resolved

\* C11, amended: for a facet whose norms keys have pairwise distinct
\* normalized keys, every requested name with the normalized key of
\* norm_group gives the outcome norm_group gave: the same (mean, sd).
TheoremC11 ==
    (pc # "start" /\ (Declared => NormKeysDistinct(ArgFacet.norms))) =>
        \A g \in SameKeyGroups : _get_norm_params(scale, facet_arg, g) = resolved

\* " CL" was requested from norms whose second key is "Cl" and whose first
\* key normalizes differently: the second entry's parameters were returned,
\* as they are for the spellings "Cl" and "cl".
WitnessC11 ==
    /\ pc = "resolved" /\ facet_arg = "F1"
    /\ norm_group = <<" ","C","L">>
    /\ Len(scale.facets[1].norms) = 2
    /\ NormKeysDistinct(scale.facets[1].norms)
    /\ scale.facets[1].norms[2].key = <<"C","l">>
    /\ scale.facets[1].norms[1].mean # PyNone
    /\ resolved.mean = Num(2)
    /\ {<<"C","l">>, <<"c","l">>} \subseteq SameKeyGroups

-----------------------------------------------------------------------------
(* get_norm_group_options_from_facets called directly                       *)

\* norms keys: preferred groups, two spellings of one group, a group with
\* a label of its own, and a group the tables do not know.
GroupKeyNames ==
    { <<"t","o","t","a","l">>,
      <<" ","C","l","í","n","i","c","o"," ">>,
      <<"c","l","i","n","i","c","o">>,
      <<"a","u","t","i","s","t","a","s">>,
      <<"a","l","t","o"," ","r","i","s","c","o">>,
      <<"a","b">> }

\* The ordered norms mappings with at most n entries, keys drawn from
\* GroupKeyNames and pairwise different.
RECURSIVE KeyedNormsUpTo(_)
KeyedNormsUpTo(n) ==
    IF n = 0 THEN {<<>>}
    ELSE KeyedNormsUpTo(n - 1) \cup
         {Append(ns, [key |-> k, mean |-> Num(0), sd |-> Num(1)]) :
             ns \in {x \in KeyedNormsUpTo(n - 1) : Len(x) = n - 1},
             k \in GroupKeyNames}

KeyedNorms == {ns \in KeyedNormsUpTo(MaxNorms) : DistinctKeys(ns)}

GroupsScale(hf, ns1, ns2) ==
    [BaseScale EXCEPT !.has_facets = hf,
                      !.facets = IF hf
                                 THEN << Facet("F1", <<1>>, EmptyMap, ns1, PyNone, PyNone),
                                         Facet("F2", <<2>>, EmptyMap, ns2, PyNone, PyNone) >>
                                 ELSE <<>>]

InitGroups ==
    /\ \E hf \in BOOLEAN, ns1 \in KeyedNorms, ns2 \in KeyedNorms :
          scale = GroupsScale(hf, ns1, ns2)
    /\ answers = EmptyMap /\ use_item_mean = TRUE
    /\ facet_arg = "" /\ norm_group = <<>>
    /\ Idle

CallGetNormGroupOptions ==
    /\ pc = "start"
    /\ pc' = "listed"
    /\ options' = get_norm_group_options_from_facets(scale)
    /\ UNCHANGED <<session_state, form, history, mean_for_z_out, base_value,
                   z_value, percentile, scale, answers, norm_group,
                   use_item_mean, facet_arg, exc, facet_stats, rows, classif,
                   resolved>>

NextGroups == CallGetNormGroupOptions

SpecGroups == InitGroups /\ [][NextGroups]_vars

-----------------------------------------------------------------------------
(* Properties of get_norm_group_options_from_facets (SpecGroups)            *)

\* The groups C12 lists first, in its order.
PreferredGroups ==
    << <<"c","l","i","n","i","c","o">>, <<"c","o","m","u","n","i","t","a","r","i","o">>,
       <<"t","o","t","a","l">>, <<"c","o","n","t","r","o","l","e">>,
       <<"a","u","t","i","s","t","a","s">> >>

\* Position of the normalized key k among the preferred groups, one past
\* the last for every other key.
ClaimedRank(k) ==
    IF \E i \in 1..Len(PreferredGroups) : PreferredGroups[i] = k
    THEN CHOOSE i \in 1..Len(PreferredGroups) : PreferredGroups[i] = k
    ELSE Len(PreferredGroups) + 1

Alphabet == <<" ", "_">> \o Letters

AlphaPos(ch) == CHOOSE i \in 1..Len(Alphabet) : Alphabet[i] = ch

\* a comes before b alphabetically: at the first position where they
\* differ a has ended or has the earlier character.
Alphabetically(a, b) ==
    \E p \in 1..Len(b) :
        /\ \A q \in 1..(p - 1) : q <= Len(a) /\ a[q] = b[q]
        /\ (p > Len(a) \/ AlphaPos(a[p]) < AlphaPos(b[p]))

\* The display label of the group g.
DisplayLabel(g) ==
    CASE norm_key(g) = <<"c","l","i","n","i","c","o">> -> <<"C","l","í","n","i","c","o">>
      [] norm_key(g) = <<"t","o","t","a","l">> -> <<"T","o","t","a","l">>
      [] norm_key(g) = <<"a","u","t","i","s","t","a","s">> -> <<"A","u","t","i","s","t","a","s">>
      [] norm_key(g) = <<"a","l","t","o"," ","r","i","s","c","o">> ->
            <<"A","l","t","o"," ","R","i","s","c","o">>
      [] OTHER -> g

-----------------------------------------------------------------------------
(* _compute_z and _z_to_percentile called directly                          *)

\* Arguments of _compute_z: None, zero, integers and fractions.
ZValues == {PyNone, Num(0), Num(1), Frac(3, 2), Num(3), Num(-2)}
ZMeans == {PyNone, Num(0), Num(1), Frac(5, 2)}
ZSds == {PyNone, Num(0), Num(1), Frac(1, 2), Num(2), Frac(1, 4)}

InitZ ==
    /\ base_value \in ZValues
    /\ \E m \in ZMeans, s \in ZSds : resolved = [exc |-> "", mean |-> m, sd |-> s]
    /\ scale = BaseScale /\ answers = EmptyMap /\ use_item_mean = TRUE
    /\ facet_arg = "" /\ norm_group = <<>>
    /\ pc = "start" /\ exc = ""
    /\ facet_stats = <<>> /\ rows = <<>> /\ classif = <<>>
    /\ options = NoOptions
    /\ z_value = PyNone /\ percentile = PyNone
    /\ mean_for_z_out = TRUE
    /\ history = <<>>
    /\ session_state = NoSession /\ form = NoForm

CallComputeZ ==
    /\ pc = "start"
    /\ z_value' = _compute_z(base_value, resolved.mean, resolved.sd)
    /\ pc' = "z"
    /\ UNCHANGED <<session_state, form, history, mean_for_z_out, options,
                   base_value, percentile, scale, answers, norm_group,
                   use_item_mean, facet_arg, exc, facet_stats, rows, classif,
                   resolved>>

CallZToPercentile ==
    /\ pc = "z"
    /\ percentile' = _z_to_percentile(z_value)
    /\ pc' = "pct"
    /\ UNCHANGED <<session_state, form, history, mean_for_z_out, options,
                   base_value, z_value, scale, answers, norm_group,
                   use_item_mean, facet_arg, exc, facet_stats, rows, classif,
                   resolved>>

NextZ == CallComputeZ \/ CallZToPercentile

SpecZ == InitZ /\ [][NextZ]_vars

-----------------------------------------------------------------------------
(* Properties of _compute_z and _z_to_percentile (SpecZ)                    *)

\* C13: z is None exactly when the value, the mean or the sd is None or the
\* sd is zero; otherwise it is the finite number (value - mean) / sd; the
\* call returns in every case.
TheoremC13 ==
    pc # "start" =>
        /\ exc = ""
        /\ z_value = PyNone <=>
              \/ base_value = PyNone \/ resolved.mean = PyNone
              \/ resolved.sd = PyNone \/ resolved.sd = Num(0)
        /\ z_value # PyNone =>
              /\ z_value.t = "num" /\ z_value.d > 0
              /\ Mul(z_value, resolved.sd) = Sub(base_value, resolved.mean)

\* A value and a mean with a zero sd gave z = None.
WitnessC13 ==
    /\ pc = "z"
    /\ base_value = Frac(3, 2) /\ resolved.mean = Num(1) /\ resolved.sd = Num(0)
    /\ z_value = PyNone

\* z-scores to compare the percentile of z_value with.
ZSamples == {Frac(n, 4) : n \in -20..20}

\* C14: the percentile of a z-score lies in [0, 100], is not above the
\* percentile of any greater z-score nor below that of any smaller one, and
\* is 50 at z = 0; the percentile of None is None.
TheoremC14 ==
    pc = "pct" =>
        /\ z_value = PyNone => percentile = PyNone
        /\ z_value # PyNone =>
              /\ percentile.t = "num"
              /\ Leq(Num(0), percentile) /\ Leq(percentile, Num(100))
              /\ \A other \in ZSamples :
                    /\ Leq(z_value, other) => Leq(percentile, _z_to_percentile(other))
                    /\ Leq(other, z_value) => Leq(_z_to_percentile(other), percentile)
        /\ z_value = Num(0) => percentile = Num(50)

\* z = 0 was converted to the percentile 50, and -1/2 and 1/2 convert to
\* percentiles strictly below and above it.
WitnessC14 ==
    /\ pc = "pct" /\ z_value = Num(0) /\ percentile = Num(50)
    /\ Less(_z_to_percentile(Frac(-1, 2)), percentile)
    /\ Less(percentile, _z_to_percentile(Frac(1, 2)))

-----------------------------------------------------------------------------
(* use_item_mean_for_z called directly                                      *)

\* Values of a hint field: absent, spellings of raw-sum and item-mean
\* tokens, and two words that are no token.
MetricHints ==
    { <<>>,
      <<" ","R","A","W">>,
      <<"S","u","m">>,
      <<"r","a","w","_","s","u","m">>,
      <<"b","r","u","t","o">>,
      <<"M","é","d","i","a">>,
      <<"M","e","a","n">>,
      <<"i","t","e","m","_","m","e","a","n">>,
      <<"r","a","w"," ","s","u","m">>,
      <<"x">> }

MetricScale(zf, zm, nm) ==
    [BaseScale EXCEPT !.z_from = zf, !.z_metric = zm, !.norm_metric = nm]

InitMetric ==
    /\ \E zf \in MetricHints, zm \in MetricHints, nm \in MetricHints :
          scale = MetricScale(zf, zm, nm)
    /\ answers = EmptyMap /\ use_item_mean = TRUE
    /\ facet_arg = "" /\ norm_group = <<>>
    /\ Idle

CallUseItemMeanForZ ==
    /\ pc = "start"
    /\ mean_for_z_out' = use_item_mean_for_z(scale)
    /\ pc' = "decided"
    /\ UNCHANGED <<session_state, form, history, options, base_value, z_value,
                   percentile, scale, answers, norm_group, use_item_mean,
                   facet_arg, exc, facet_stats, rows, classif, resolved>>

NextMetric == CallUseItemMeanForZ

SpecMetric == InitMetric /\ [][NextMetric]_vars

-----------------------------------------------------------------------------
(* Properties of use_item_mean_for_z (SpecMetric)                           *)

\* The hint the instrument gives: the first of z_from, z_metric and
\* norm_metric that is present, none (the empty sequence) when all are
\* absent.
GivenHint ==
    IF scale.z_from # <<>> THEN scale.z_from
    ELSE IF scale.z_metric # <<>> THEN scale.z_metric
    ELSE scale.norm_metric

\* Spellings of tokens meaning raw or sum, and of tokens meaning mean.
RawSpellings == { <<" ","R","A","W">>, <<"S","u","m">>, <<"r","a","w","_","s","u","m">>, <<"b","r","u","t","o">> }
MeanSpellings == { <<"M","é","d","i","a">>, <<"M","e","a","n">>, <<"i","t","e","m","_","m","e","a","n">> }

\* C15: the raw sum is selected (False) when the normalized hint is a token
\* meaning raw or sum; the item mean is selected (True) when it is a token
\* meaning mean, when no hint is present and when the hint is no token.
TheoremC15 ==
    pc = "decided" =>
        /\ norm_key(GivenHint) \in RawTokens => mean_for_z_out = FALSE
        /\ norm_key(GivenHint) \in MeanTokens => mean_for_z_out = TRUE
        /\ GivenHint = <<>> => mean_for_z_out = TRUE
        /\ norm_key(GivenHint) \notin (RawTokens \cup MeanTokens)
              => mean_for_z_out = TRUE
        /\ GivenHint \in RawSpellings => mean_for_z_out = FALSE
        /\ GivenHint \in MeanSpellings => mean_for_z_out = TRUE

\* z_from is absent and z_metric is " RAW": the raw sum was selected,
\* although norm_metric asks for the mean.
WitnessC15 ==
    /\ pc = "decided"
    /\ scale.z_from = <<>> /\ scale.z_metric = <<" ","R","A","W">>
    /\ scale.norm_metric = <<"M","é","d","i","a">>
    /\ mean_for_z_out = FALSE

-----------------------------------------------------------------------------
(* build_classification_table called directly                               *)

MaxRules == 2

\* max_abs_z of a rule: numbers, JSON null, a numeric and a non-numeric
\* string.
Thresholds == {Num(1), Num(2), PyNone, Str("2.5"), Str("abc")}

\* The labels of the rule declared at position k.
AboveLabels == <<"A+", "B+", "C+", "D+">>
BelowLabels == <<"A-", "B-", "C-", "D-">>

\* The rule lists with at most n rules; thresholds come in any order.
RECURSIVE RulesUpTo(_)
RulesUpTo(n) ==
    IF n = 0 THEN {<<>>}
    ELSE RulesUpTo(n - 1) \cup
         {Append(rs, Rule(t, AboveLabels[n], BelowLabels[n])) :
             rs \in {x \in RulesUpTo(n - 1) : Len(x) = n - 1}, t \in Thresholds}

\* z of a result row: None, zero, and both signs below, at and above the
\* thresholds.
RowZs ==
    {PyNone, Num(0), Frac(1, 2), Frac(-1, 2), Num(1), Num(-1), Frac(3, 2),
     Frac(-3, 2), Frac(5, 2), Num(-3)}

ResultRow(f, z) == [faceta |-> f, z |-> z]

\* Result rows of one or two facets.
RowChoices ==
    {<<ResultRow("F1", z)>> : z \in RowZs}
    \cup {<<ResultRow("F1", z1), ResultRow("F2", z2)>> : z1 \in RowZs, z2 \in {PyNone, Frac(3, 2)}}

ClassifyScale(rules) == [BaseScale EXCEPT !.classification = rules]

InitClassify ==
    /\ \E rules \in RulesUpTo(MaxRules) : scale = ClassifyScale(rules)
    /\ rows \in RowChoices
    /\ answers = EmptyMap /\ use_item_mean = TRUE
    /\ facet_arg = "" /\ norm_group = <<>>
    /\ pc = "start" /\ exc = ""
    /\ facet_stats = <<>> /\ classif = <<>>
    /\ resolved = NoParams /\ options = NoOptions
    /\ base_value = PyNone /\ z_value = PyNone /\ percentile = PyNone
    /\ mean_for_z_out = TRUE
    /\ history = <<>>
    /\ session_state = NoSession /\ form = NoForm

\* The call returns the table r.v or raises r.exc.
ClassifyReturns(r) ==
    /\ pc' = IF r.exc = "" THEN "classified" ELSE "raised"
    /\ exc' = r.exc
    /\ classif' = r.v

CallBuildClassificationTable ==
    /\ pc = "start"
    /\ ClassifyReturns(build_classification_table(scale, rows))
    /\ UNCHANGED <<session_state, form, history, mean_for_z_out, options,
                   base_value, z_value, percentile, scale, answers,
                   norm_group, use_item_mean, facet_arg, facet_stats, rows,
                   resolved>>

NextClassify == CallBuildClassificationTable

SpecClassify == InitClassify /\ [][NextClassify]_vars

-----------------------------------------------------------------------------
(* Properties of build_classification_table (SpecClassify)                  *)

AbsOf(z) == IF z.n < 0 THEN Frac(-z.n, z.d) ELSE z

\* The rule applies to z: its max_abs_z is None or at least abs(z).
RuleApplies(rule, z) ==
    \/ rule.max_abs_z = PyNone
    \/ IsNumeric(rule.max_abs_z) /\ Leq(AbsOf(z), NumericValue(rule.max_abs_z))

\* The positions, in declaration order, of the rules that apply to z.
Applicable(z) ==
    {k \in 1..Len(scale.classification) : RuleApplies(scale.classification[k], z)}

\* C16: in a returned table the label of a row with a z is one of the two
\* labels of the first declared rule that applies (threshold inclusive),
\* whatever the order of the thresholds; with rules [1: A+/A-, 2: B+/B-],
\* z = 1.5 is labelled B+ and z = -0.5 is labelled A-.
TheoremC16 ==
    pc = "classified" =>
        \A i \in 1..Len(rows) :
            rows[i].z # PyNone =>
                /\ Applicable(rows[i].z) # {} =>
                      classif[i].classificacao \in
                          {scale.classification[Min(Applicable(rows[i].z))].label_above,
                           scale.classification[Min(Applicable(rows[i].z))].label_below}
                /\ (/\ scale.classification
                         = <<Rule(Num(1), "A+", "A-"), Rule(Num(2), "B+", "B-")>>
                    /\ rows[i].z = Frac(3, 2))
                      => classif[i].classificacao = Str("B+")
                /\ (/\ scale.classification
                         = <<Rule(Num(1), "A+", "A-"), Rule(Num(2), "B+", "B-")>>
                    /\ rows[i].z = Frac(-1, 2))
                      => classif[i].classificacao = Str("A-")

\* The rules are declared with thresholds 2 then 1; z = 1 meets both, at
\* the second inclusively, and got the label of the first declared rule.
WitnessC16 ==
    /\ pc = "classified"
    /\ scale.classification = <<Rule(Num(2), "A+", "A-"), Rule(Num(1), "B+", "B-")>>
    /\ rows[1].z = Num(1)
    /\ classif[1].classificacao = Str("A+")

\* C17: the label of a row for which a rule was selected is the rule's
\* label_above when z >= 0, z = 0 included, and its label_below when z < 0.
TheoremC17 ==
    pc = "classified" =>
        \A i \in 1..Len(rows) :
            (rows[i].z # PyNone /\ Applicable(rows[i].z) # {}) =>
                classif[i].classificacao =
                    IF Leq(Num(0), rows[i].z)
                    THEN scale.classification[Min(Applicable(rows[i].z))].label_above
                    ELSE scale.classification[Min(Applicable(rows[i].z))].label_below

\* z = 0 was labelled with label_above of the selected rule.
WitnessC17 ==
    /\ pc = "classified"
    /\ Len(scale.classification) >= 1
    /\ rows[1].z = Num(0)
    /\ classif[1].classificacao = scale.classification[1].label_above

\* C18: the call returns for every instrument and every result rows, with
\* one row per result row, and the label is None when z is None, when there
\* is no rule, and when no rule applies to z.
ClaimC18 ==
    pc # "start" =>
        /\ pc = "classified" /\ exc = ""
        /\ Len(classif) = Len(rows)
        /\ \A i \in 1..Len(rows) :
              /\ classif[i].faceta = rows[i].faceta
              /\ (rows[i].z = PyNone \/ Applicable(rows[i].z) = {})
                    => classif[i].classificacao = PyNone

-----------------------------------------------------------------------------
(* pages/3_Resultados.py: one run of the results page                       *)

\* The use_item_mean argument taken from the instrument's metric hint.
page_use_item_mean_from_metric(scale_ref) == use_item_mean_for_z(scale_ref)

\* The use_item_mean argument the page passes to score_scales (line 136).
page_use_item_mean(scale_ref) == TRUE

\* Metric hints: absent, spellings of "raw" and "media", an unknown word.
Hints ==
    { <<>>, <<" ","R","A","W">>, <<"M","é","d","i","a">>, <<"x">> }

PageResponseMaps ==
    { EmptyMap,
      [l \in {"Nunca", "Sempre"} |-> IF l = "Nunca" THEN Num(0) ELSE Num(3)],
      [l \in {"Nunca", "Sempre"} |-> IF l = "Nunca" THEN Num(0) ELSE Str("abc")] }

NormEntry(k, mean, sd) == [key |-> k, mean |-> mean, sd |-> sd]

\* Norms of facet F1: none, one group, two groups (one with sd 0), null
\* parameters, and decimal parameters (mean 0.001, sd 2.998).
PageNorms ==
    { <<>>,
      << NormEntry(<<"C","l">>, Num(1), Frac(3, 2)) >>,
      << NormEntry(<<"C","l">>, Num(1), Frac(3, 2)), NormEntry(<<"t","o">>, Num(2), Num(0)) >>,
      << NormEntry(<<"c","l">>, PyNone, PyNone) >>,
      << NormEntry(<<"C","l">>, Frac(1, 1000), Frac(2998, 1000)) >> }

PageRules ==
    { <<>>,
      << Rule(Num(1), "A+", "A-"), Rule(Num(2), "B+", "B-") >>,
      << Rule(Num(1), "A+", "A-"), Rule(PyNone, "C+", "C-") >> }

PageScale(rm, rev, hint, gdef, rules, k, ns) ==
    [BaseScale EXCEPT !.response_map = rm, !.reverse_items = rev,
                      !.z_from = hint, !.default_norm_group = gdef,
                      !.classification = rules,
                      !.facets = Layout(k, EmptyMap, ns, <<>>)]

\* What the form stores per item: the blank sentinel or a label; a label of
\* an older definition of the scale is unknown to response_map.
PageAnswerValues == {Str(BLANK), Str("Nunca"), Str("Sempre"), Str("Talvez")}

PageAnswerSets == {EmptyMap} \cup [Items -> PageAnswerValues]

\* An instrument definition without a facets mapping, with or without a
\* metric hint.
NoFacetsScales == {[BaseScale EXCEPT !.has_facets = FALSE, !.z_from = hint] : hint \in Hints}

Init ==
    /\ \/ \E rm \in PageResponseMaps, rev \in SUBSET {1}, hint \in Hints,
             gdef \in {<<>>, <<"t","o">>}, rules \in PageRules,
             k \in {1, MaxItems}, ns \in PageNorms :
               scale = PageScale(rm, rev, hint, gdef, rules, k, ns)
       \/ scale \in NoFacetsScales
    /\ answers \in PageAnswerSets
    /\ norm_group = <<>> /\ facet_arg = ""
    /\ use_item_mean = TRUE
    /\ Idle

\* Lines 98-101: no stored answers for the scale.
PageNoAnswers ==
    /\ pc = "start" /\ DOMAIN answers = {}
    /\ pc' = "stopped"
    /\ UNCHANGED <<session_state, form, history, mean_for_z_out, options,
                   base_value, z_value, percentile, scale, answers,
                   norm_group, use_item_mean, facet_arg, exc, facet_stats,
                   rows, classif, resolved>>

\* Line 104.
PageNormalize ==
    /\ pc = "start" /\ DOMAIN answers # {}
    /\ answers' = _normalize_answers(answers)
    /\ pc' = "normalized"
    /\ UNCHANGED <<session_state, form, history, mean_for_z_out, options,
                   base_value, z_value, percentile, scale, norm_group,
                   use_item_mean, facet_arg, exc, facet_stats, rows, classif,
                   resolved>>

\* Line 121: the user picks one of the offered groups.
PageSelectGroup ==
    /\ pc = "normalized"
    /\ norm_group' \in SelectableGroups(scale)
    /\ pc' = "selected"
    /\ UNCHANGED <<session_state, form, history, mean_for_z_out, options,
                   base_value, z_value, percentile, scale, answers,
                   use_item_mean, facet_arg, exc, facet_stats, rows, classif,
                   resolved>>

\* Lines 132-136 and the handler of lines 144-150.
PageScored(r) ==
    /\ pc' = IF r.exc = "" THEN "scored" ELSE "stopped"
    /\ exc' = r.exc
    /\ facet_stats' = r.v

PageScore ==
    /\ pc = "selected" /\ scale.has_facets
    /\ PageScored(score_scales(scale, answers, page_use_item_mean(scale)))
    /\ use_item_mean' = page_use_item_mean(scale)
    /\ UNCHANGED <<session_state, form, history, mean_for_z_out, options,
                   base_value, z_value, percentile, scale, answers,
                   norm_group, facet_arg, rows, classif, resolved>>

\* Lines 275-281: the instrument has no facets mapping; the page shows a
\* warning and scores nothing.
PageNoFacets ==
    /\ pc = "selected" /\ ~scale.has_facets
    /\ pc' = "warned"
    /\ UNCHANGED <<session_state, form, history, mean_for_z_out, options,
                   base_value, z_value, percentile, scale, answers,
                   norm_group, use_item_mean, facet_arg, exc, facet_stats,
                   rows, classif, resolved>>

\* Lines 137-142.
PageSummarized(r) ==
    /\ pc' = IF r.exc = "" THEN "summarized" ELSE "stopped"
    /\ exc' = r.exc
    /\ rows' = r.v

PageSummarize ==
    /\ pc = "scored"
    /\ PageSummarized(summarize_with_norms(scale, facet_stats, norm_group,
                                           use_item_mean_for_z(scale)))
    /\ UNCHANGED <<session_state, form, history, mean_for_z_out, options,
                   base_value, z_value, percentile, scale, answers,
                   norm_group, use_item_mean, facet_arg, facet_stats, classif,
                   resolved>>

\* Line 143.
PageClassified(r) ==
    /\ pc' = IF r.exc = "" THEN "classified" ELSE "stopped"
    /\ exc' = r.exc
    /\ classif' = r.v

PageClassify ==
    /\ pc = "summarized"
    /\ PageClassified(build_classification_table(scale, rows))
    /\ UNCHANGED <<session_state, form, history, mean_for_z_out, options,
                   base_value, z_value, percentile, scale, answers,
                   norm_group, use_item_mean, facet_arg, facet_stats, rows,
                   resolved>>

Next ==
    \/ PageNoAnswers
    \/ PageNormalize
    \/ PageSelectGroup
    \/ PageScore
    \/ PageNoFacets
    \/ PageSummarize
    \/ PageClassify

Spec == Init /\ [][Next]_vars

-----------------------------------------------------------------------------
(* Properties of the scoring pipeline (Spec)                                *)

\* No item of the facet has an answer score_scales counts.
ZeroAnswered(fdata) == \A item \in Range(fdata.items) : Unanswered(item)

Scored == pc \in {"scored", "summarized", "classified"}
Summarized == pc \in {"summarized", "classified"}

\* The z-score of facet i before summarize_with_norms rounds it:
\* (value - mean_ref) / sd_ref on the value the metric selects.
ExactZ(i) ==
    _compute_z(IF use_item_mean_for_z(scale) THEN facet_stats[i].mean_items
               ELSE facet_stats[i].raw_sum,
               rows[i].mean_ref, rows[i].sd_ref)

\* C27: the label of every facet is the one the classification rules give
\* to the facet's exact z: rounding z to 3 decimals changes neither the rule
\* selected nor the choice between label_above and label_below.
ClaimC27 ==
    pc = "classified" =>
        \A i \in 1..Len(classif) :
            classif[i].classificacao =
                classify_row(scale, [rows[i] EXCEPT !.z = ExactZ(i)]).classificacao

\* C1: none of the three steps raises, and a facet with zero answered items
\* gets raw_sum, mean_items, z, percentile and label None with n_answered 0.
ClaimC1 ==
    /\ exc = ""
    /\ \A i \in FacetIndexes :
        ZeroAnswered(scale.facets[i]) =>
            /\ Scored => /\ facet_stats[i].raw_sum = PyNone
                         /\ facet_stats[i].mean_items = PyNone
                         /\ facet_stats[i].n_answered = 0
            /\ Summarized => (rows[i].z = PyNone /\ rows[i].percentil = PyNone)
            /\ pc = "classified" => classif[i].classificacao = PyNone

\* C8 as stated: mean_items is None in the statistics and in the rows when
\* the metric hint selects raw sum, and when no item was answered.
ClaimC8 ==
    \A i \in FacetIndexes :
        (~use_item_mean_for_z(scale) \/ ZeroAnswered(scale.facets[i])) =>
            /\ Scored => facet_stats[i].mean_items = PyNone
            /\ Summarized => rows[i].media_itens = PyNone

\* C8 as amended: mean_items is None in the statistics and in the rows
\* exactly when no item of the facet was answered, whatever the metric hint.
TheoremC8 ==
    \A i \in FacetIndexes :
        /\ Scored => (facet_stats[i].mean_items = PyNone
                        <=> ZeroAnswered(scale.facets[i]))
        /\ Summarized => (rows[i].media_itens = PyNone
                            <=> ZeroAnswered(scale.facets[i]))

\* Rows were produced for an instrument whose hint selects raw sum, and a
\* facet with an answered item carries a mean.
WitnessC8 ==
    /\ Summarized /\ ~use_item_mean_for_z(scale)
    /\ \E i \in FacetIndexes :
        /\ facet_stats[i].n_answered >= 1
        /\ rows[i].media_itens # PyNone
        /\ rows[i].z # PyNone

\* The errors that name the instrument as invalid; KeyError, ValueError and
\* TypeError are the generic errors of a lookup or a conversion.
InvalidInstrumentErrors == {"InvalidInstrument"}

\* C20: for an instrument without a facets mapping scoring does not degrade
\* to an empty or partial result: score_scales fails for it, and the
\* request ends with an explicit "invalid instrument" error.
ClaimC20 ==
    (/\ ~scale.has_facets
     /\ pc \notin {"start", "normalized", "selected"}
     /\ DOMAIN answers # {}) =>
        /\ score_scales(scale, answers, TRUE).exc \in InvalidInstrumentErrors
        /\ pc = "stopped" /\ exc \in InvalidInstrumentErrors

-----------------------------------------------------------------------------
(* A series of scoring calls: the four functions of corrections.py called   *)
(* one after another, for the same or for another request                   *)

MaxCalls == 3

ScoringFunctions ==
    {"score_scales", "_get_norm_params", "summarize_with_norms",
     "build_classification_table"}

\* What a call leaves in the instrument and the answer set it was given:
\* answers that were read would be gone.
args_after_call_consuming(scale_ref, answer_set) ==
    [scale |-> scale_ref, answers |-> EmptyMap]

\* What a call leaves in the instrument and the answer set it was given:
\* the four functions only read them (.get, indexing, iteration) and build
\* their results in new lists and dicts.
args_after_call(scale_ref, answer_set) ==
    [scale |-> scale_ref, answers |-> answer_set]

\* The outcome of the function fn for a request: the later functions take
\* what the earlier ones return for it.
call_result(fn, scale_ref, answer_set, group) ==
    CASE fn = "score_scales" -> score_scales(scale_ref, answer_set, TRUE)
      [] fn = "_get_norm_params" -> _get_norm_params(scale_ref, "F1", group)
      [] fn = "summarize_with_norms" ->
            summarize_with_norms(scale_ref,
                                 score_scales(scale_ref, answer_set, TRUE).v,
                                 group, use_item_mean_for_z(scale_ref))
      [] OTHER ->
            build_classification_table(
                scale_ref,
                summarize_with_norms(scale_ref,
                                     score_scales(scale_ref, answer_set, TRUE).v,
                                     group, use_item_mean_for_z(scale_ref)).v)

CallRecord(fn, scale_ref, answer_set, group) ==
    [fn |-> fn, scale |-> scale_ref, answers |-> answer_set, group |-> group,
     left |-> args_after_call(scale_ref, answer_set),
     result |-> call_result(fn, scale_ref, answer_set, group)]

\* Two instruments: one scores every answer, one holds a response value
\* that makes score_scales raise.
CallScales ==
    { PageScale([l \in {"Nunca", "Sempre"} |-> IF l = "Nunca" THEN Num(0) ELSE Num(3)],
                {1}, <<>>, <<>>,
                << Rule(Num(1), "A+", "A-"), Rule(Num(2), "B+", "B-") >>, 1,
                << NormEntry(<<"C","l">>, Num(1), Frac(3, 2)) >>),
      PageScale([l \in {"Nunca", "Sempre"} |-> IF l = "Nunca" THEN Num(0) ELSE Str("abc")],
                {}, <<" ","R","A","W">>, <<>>,
                << Rule(Num(1), "A+", "A-"), Rule(PyNone, "C+", "C-") >>, 1,
                << NormEntry(<<"C","l">>, Num(1), Frac(3, 2)) >>) }

CallAnswers == {[i \in Items |-> Str(l)] : l \in {"Nunca", "Sempre"}}

InitCalls ==
    /\ scale \in CallScales
    /\ answers \in CallAnswers
    /\ norm_group = <<"c","l">> /\ facet_arg = "F1"
    /\ use_item_mean = TRUE
    /\ Idle

\* One call of fn with the request at hand.
Called(fn) ==
    /\ Len(history) < MaxCalls
    /\ history' = Append(history, CallRecord(fn, scale, answers, norm_group))
    /\ scale' = args_after_call(scale, answers).scale
    /\ answers' = args_after_call(scale, answers).answers
    /\ UNCHANGED <<session_state, form, mean_for_z_out, options, base_value,
                   z_value, percentile, norm_group, use_item_mean, facet_arg,
                   pc, exc, facet_stats, rows, classif, resolved>>

\* The next call is for another request: another instrument or other
\* answers.
NextRequest ==
    /\ Len(history) >= 1 /\ Len(history) < MaxCalls
    /\ scale' \in CallScales
    /\ answers' \in CallAnswers
    /\ <<scale', answers'>> # <<scale, answers>>
    /\ UNCHANGED <<session_state, form, history, mean_for_z_out, options,
                   base_value, z_value, percentile, norm_group, use_item_mean,
                   facet_arg, pc, exc, facet_stats, rows, classif, resolved>>

NextCalls ==
    \/ Called("score_scales")
    \/ Called("_get_norm_params")
    \/ Called("summarize_with_norms")
    \/ Called("build_classification_table")
    \/ NextRequest

SpecCalls == InitCalls /\ [][NextCalls]_vars

-----------------------------------------------------------------------------
(* Properties of a series of calls (SpecCalls)                              *)

SameRequest(a, b) ==
    a.fn = b.fn /\ a.scale = b.scale /\ a.answers = b.answers /\ a.group = b.group

-----------------------------------------------------------------------------
(* modules/scales_forms.py: the paginated answer form                       *)
(*                                                                         *)
(* st.session_state is the record session_state: page is 0 while the page  *)
(* key is missing, has_answers tells whether the answers key exists,       *)
(* signature is <<>> while the signature key is missing.  Item ids are     *)
(* numbers standing for their str(); answers are plain strings.            *)

Min2(a, b) == IF a <= b THEN a ELSE b
Max2(a, b) == IF a >= b THEN a ELSE b

\* Lines 447-454.
_compute_signature(cfg, data) ==
    <<data.name, data.answer_options, Len(data.items),
      cfg.allow_blank, cfg.page_size, cfg.show_id_badge>>

\* Lines 529-537: options[1] is the second option.
default_value(cfg, opts) ==
    IF cfg.test_prefill
    THEN IF Len(opts) > 1 THEN opts[2] ELSE IF Len(opts) > 0 THEN opts[1] ELSE ""
    ELSE IF cfg.allow_blank THEN cfg.blank_sentinel
    ELSE IF Len(opts) > 1 THEN opts[2] ELSE opts[1]

\* Lines 519-521.
page_or_first(ss) == IF ss.page = 0 THEN [ss EXCEPT !.page = 1] ELSE ss

\* Lines 524-526.
need_init(ss, signature) == ~ss.has_answers \/ ss.signature # signature

\* Lines 539-541.
initialized_state(ss, cfg, items, opts, signature) ==
    [ss EXCEPT !.has_answers = TRUE,
               !.answers = [id \in {items[i] : i \in 1..Len(items)} |->
                               default_value(cfg, opts)],
               !.initialized = TRUE,
               !.signature = signature]

\* Lines 528-541 on the state with the page key present.
init_if_needed(ss, cfg, items, opts, signature) ==
    IF need_init(ss, signature)
    THEN initialized_state(ss, cfg, items, opts, signature)
    ELSE ss

_ensure_initial_state(cfg, items, opts, signature, ss) ==
    init_if_needed(page_or_first(ss), cfg, items, opts, signature)

\* Lines 78-83; the execution counter, which only names the scroll widget,
\* is left out.
_scroll_to_top_if_needed(ss) == [ss EXCEPT !.scroll = FALSE]

\* _total_pages by plain floor division.
_total_pages_floor(n_items, page_size) ==
    Max2(1, n_items \div page_size)

\* Line 584.
_total_pages(n_items, page_size) ==
    Max2(1, (n_items + page_size - 1) \div page_size)

\* The pair (start, end) of a slice: start inclusive, end exclusive, 0-based.
_page_window(page, page_size, n_items) ==
    [start |-> (page - 1) * page_size,
     end |-> Min2(n_items, (page - 1) * page_size + page_size)]

\* Lines 924-925: the 1-based positions of data.items[start:end].
page_positions(items, w) ==
    {pos \in 1..Len(items) : w.start < pos /\ pos <= w.end}

\* Lines 712-714 of _render_item_row.
display_options(cfg, opts) ==
    IF cfg.allow_blank THEN opts
    ELSE SelectSeq(opts, LAMBDA o : o # cfg.blank_sentinel)

\* Lines 717-718: the option the selectbox shows for the stored value.
shown_value(disp, current_value) ==
    IF \E i \in 1..Len(disp) : disp[i] = current_value THEN current_value
    ELSE IF Len(disp) > 0 THEN disp[1] ELSE ""

\* The values the selectboxes hold when nobody touched them.
shown_values(cfg, opts, stored) ==
    [id \in DOMAIN stored |-> shown_value(display_options(cfg, opts), stored[id])]

\* Line 959: the first position of the page whose id has no stored answer
\* (the read raises KeyError there), 0 when every read succeeds.
first_missing(items, poss, stored) ==
    IF \A pos \in poss : items[pos] \in DOMAIN stored THEN 0
    ELSE CHOOSE pos \in poss :
            /\ items[pos] \notin DOMAIN stored
            /\ \A q \in poss : q < pos => items[q] \in DOMAIN stored

\* Lines 958-960 and line 759: every row rendered before position `stop`
\* (all of them when stop is 0) stores the value of its selectbox.
rows_rendered(ss, items, poss, stop, chosen) ==
    [ss EXCEPT !.answers =
        [id \in DOMAIN ss.answers |->
            IF \E pos \in poss : items[pos] = id /\ (stop = 0 \/ pos < stop)
            THEN chosen[id] ELSE ss.answers[id]]]

\* Line 836 on a stored value (a string).
is_missing(cfg, val) == val = cfg.blank_sentinel \/ val = ""

\* Lines 832-838 from position pos on: one row per missing item in scope,
\* with the page computed from its position.
RECURSIVE validate_from(_, _, _, _, _)
validate_from(cfg, items, stored, scope, pos) ==
    IF pos > Len(items) THEN <<>>
    ELSE IF items[pos] \notin scope
            \/ ~is_missing(cfg, Get(stored, items[pos], cfg.blank_sentinel))
    THEN validate_from(cfg, items, stored, scope, pos + 1)
    ELSE <<[Item |-> items[pos], Pagina |-> ((pos - 1) \div cfg.page_size) + 1]>>
         \o validate_from(cfg, items, stored, scope, pos + 1)

\* scope is the set of items of scope_items, every item for None.
_validate_answers(cfg, data, stored, scope) ==
    validate_from(cfg, data.items, stored, scope, 1)

\* _render_items_form finishing on the last page without the check of the
\* other pages.
form_decision_page_only(submitted, missing, is_last, missing_all) ==
    [go_next |-> submitted /\ missing = <<>> /\ ~is_last,
     finished |-> submitted /\ missing = <<>> /\ is_last]

\* Lines 971-988: (go_next, finished) from the two validations.
form_decision(submitted, missing, is_last, missing_all) ==
    [go_next |-> submitted /\ missing = <<>> /\ ~is_last,
     finished |-> submitted /\ missing = <<>> /\ is_last /\ missing_all = <<>>]

\* _render_items_form on ss, the session state with the rows rendered.
_render_items_form(cfg, data, ss, poss, submitted, total_pages) ==
    form_decision(submitted,
                  _validate_answers(cfg, data, ss.answers,
                                    {data.items[pos] : pos \in poss}),
                  ss.page = total_pages,
                  _validate_answers(cfg, data, ss.answers,
                                    {data.items[i] : i \in 1..Len(data.items)}))

\* Lines 116-119.
page_advanced(ss, total_pages) ==
    [ss EXCEPT !.page = Min2(total_pages, ss.page + 1), !.scroll = TRUE]

-----------------------------------------------------------------------------
(* render_scale_form: runs of the form page                                 *)
(*                                                                         *)
(* Every run of the script calls render_scale_form once.  A run is a plain *)
(* render, a submission of the form shown by the previous run, or the run  *)
(* st.rerun() starts after the page advanced.  The scale definition and    *)
(* the configuration are read anew by every render and may have changed;   *)
(* the session keys derive from the scale name, which stays the same.      *)

MaxFormItems == 3
MaxPageSize == 2

\* Item lists: ids 1..n, and the same list with its last item renumbered.
FormItemLists ==
    {[i \in 1..n |-> i] : n \in 0..MaxFormItems}
    \cup {[i \in 1..n |-> IF i = n THEN n + 1 ELSE i] : n \in 1..MaxFormItems}

\* answer_options as _normalize_scale builds them: the blank sentinel first.
FormOptionLists == { <<BLANK, "Nunca", "Sempre">>, <<BLANK, "Sim">> }

FormData ==
    {[name |-> "Escala", answer_options |-> o, items |-> its] :
        o \in FormOptionLists, its \in FormItemLists}

FormCfgs ==
    {[page_size |-> ps, allow_blank |-> ab, blank_sentinel |-> BLANK,
      show_id_badge |-> TRUE, test_prefill |-> FALSE] :
        ps \in 1..MaxPageSize, ab \in BOOLEAN}

InitForm ==
    /\ scale = BaseScale /\ answers = EmptyMap /\ use_item_mean = TRUE
    /\ facet_arg = "" /\ norm_group = <<>>
    /\ Idle

\* Lines 103-106 on the session state the run finds.
Prepared(cfg, data) ==
    _scroll_to_top_if_needed(
        _ensure_initial_state(cfg, data.items, data.answer_options,
                              _compute_signature(cfg, data), session_state))

\* The positions of data.items shown on the page of ss.
PagePositions(cfg, data, ss) ==
    page_positions(data.items,
                   _page_window(ss.page, cfg.page_size, Len(data.items)))

NoDecision == [go_next |-> FALSE, finished |-> FALSE]

\* What the run leaves for the caller: the page it showed and lines 121-125.
form_outcome(cfg, data, ss, submitted, d) ==
    [data |-> data, cfg |-> cfg,
     current_page |-> ss.page,
     total_pages |-> _total_pages(Len(data.items), cfg.page_size),
     submitted |-> submitted,
     go_next |-> d.go_next,
     finished |-> d.finished,
     returned |-> IF d.finished THEN ss.answers ELSE EmptyMap]

\* The read of line 959 raised: the run ends there.
FormRaised(cfg, data, ss, submitted) ==
    /\ session_state' = ss
    /\ pc' = "crashed"
    /\ exc' = "KeyError"
    /\ form' = form_outcome(cfg, data, ss, submitted, NoDecision)

\* Lines 114-125 on d, the pair _render_items_form returned.
FormReturned(cfg, data, ss, submitted, d) ==
    /\ session_state' =
          IF d.go_next
          THEN page_advanced(ss, _total_pages(Len(data.items), cfg.page_size))
          ELSE ss
    /\ pc' = IF d.go_next THEN "rerun" ELSE "shown"
    /\ exc' = ""
    /\ form' = form_outcome(cfg, data, ss, submitted, d)

FormRows(cfg, data, ss, poss, stop, submitted, chosen) ==
    IF stop # 0
    THEN FormRaised(cfg, data,
                    rows_rendered(ss, data.items, poss, stop, chosen), submitted)
    ELSE FormReturned(cfg, data,
                      rows_rendered(ss, data.items, poss, 0, chosen), submitted,
                      _render_items_form(
                          cfg, data,
                          rows_rendered(ss, data.items, poss, 0, chosen),
                          poss, submitted,
                          _total_pages(Len(data.items), cfg.page_size)))

\* One run of render_scale_form from ss, the prepared session state;
\* chosen gives the value of every selectbox of the page.
render_scale_form(cfg, data, ss, submitted, chosen) ==
    FormRows(cfg, data, ss, PagePositions(cfg, data, ss),
             first_missing(data.items, PagePositions(cfg, data, ss), ss.answers),
             submitted, chosen)

\* A run without a submission, with any definition and configuration.
FormRender ==
    /\ pc \in {"start", "shown", "crashed"}
    /\ \E data \in FormData, cfg \in FormCfgs :
          render_scale_form(cfg, data, Prepared(cfg, data), FALSE,
                            shown_values(cfg, data.answer_options,
                                         Prepared(cfg, data).answers))
    /\ UNCHANGED <<scale, answers, norm_group, use_item_mean, facet_arg,
                   facet_stats, rows, classif, resolved, options, base_value,
                   z_value, percentile, mean_for_z_out, history>>

\* The run st.rerun() starts (line 119).
FormRerun ==
    /\ pc = "rerun"
    /\ render_scale_form(form.cfg, form.data, Prepared(form.cfg, form.data), FALSE,
                         shown_values(form.cfg, form.data.answer_options,
                                      Prepared(form.cfg, form.data).answers))
    /\ UNCHANGED <<scale, answers, norm_group, use_item_mean, facet_arg,
                   facet_stats, rows, classif, resolved, options, base_value,
                   z_value, percentile, mean_for_z_out, history>>

\* The user picks a value in every selectbox of the page shown and presses
\* the submit button.
FormSubmit ==
    /\ pc = "shown"
    /\ \E chosen \in
            [{form.data.items[pos] :
                 pos \in PagePositions(form.cfg, form.data,
                                       Prepared(form.cfg, form.data))}
             -> Range(display_options(form.cfg, form.data.answer_options))] :
          render_scale_form(form.cfg, form.data, Prepared(form.cfg, form.data),
                            TRUE, chosen)
    /\ UNCHANGED <<scale, answers, norm_group, use_item_mean, facet_arg,
                   facet_stats, rows, classif, resolved, options, base_value,
                   z_value, percentile, mean_for_z_out, history>>

NextForm ==
    \/ FormRender
    \/ FormRerun
    \/ FormSubmit

SpecForm == InitForm /\ [][NextForm]_vars

-----------------------------------------------------------------------------
(* Properties of the form (SpecForm)                                        *)

\* The ids of the items shown on page p by the run that left the record f.
ShownIds(f, p) ==
    {f.data.items[pos] : pos \in PagePositions(f.cfg, f.data, [page |-> p])}

\* The stored answer of item id is the blank sentinel, empty or absent.
BlankIn(cfg, stored, id) ==
    is_missing(cfg, Get(stored, id, cfg.blank_sentinel))

\* C22: a run reports finished only for a submission of the last page with
\* every item of the scale answered by something other than the blank
\* sentinel or the empty string; the answers it returns are the stored ones
\* and hold no blank item; a run that is not finished returns no answers;
\* go_next and finished are never both true.
TheoremC22 ==
    /\ ~(form.go_next /\ form.finished)
    /\ form.finished =>
          /\ form.submitted
          /\ form.current_page = form.total_pages
          /\ form.returned = session_state.answers
          /\ \A id \in Range(form.data.items) :
                /\ id \in DOMAIN form.returned
                /\ ~BlankIn(form.cfg, form.returned, id)
          /\ \A id \in DOMAIN form.returned : ~BlankIn(form.cfg, form.returned, id)
    /\ ~form.finished => form.returned = EmptyMap

\* A scale of several pages was finished.
WitnessC22 ==
    /\ form.finished
    /\ form.total_pages >= 2
    /\ Len(form.data.items) >= 2

\* C24: after every run the answers map holds exactly one entry per item id
\* of the scale as rendered, whatever changed since the previous run, so
\* the read of the stored value of an item of the page never fails.
ClaimC24 ==
    pc # "start" =>
        /\ exc = ""
        /\ session_state.has_answers
        /\ DOMAIN session_state.answers = Range(form.data.items)

\* C29: once the form was rendered, the stored page lies between 1 and the
\* number of pages of the scale as rendered, and no run lowers it.
ClaimC29 ==
    /\ [](pc # "start" =>
            /\ 1 <= session_state.page
            /\ session_state.page <= form.total_pages)
    /\ [][session_state'.page >= session_state.page]_vars

\* What C23 says of the step from the session state ss to tt made by a
\* submission that left the record f.
SubmissionAsClaimed(ss, tt, f) ==
    IF \E id \in ShownIds(f, f.current_page) : BlankIn(f.cfg, tt.answers, id)
    THEN /\ tt.page = f.current_page
         /\ DOMAIN tt.answers = DOMAIN ss.answers
         /\ \A id \in DOMAIN ss.answers \ ShownIds(f, f.current_page) :
                tt.answers[id] = ss.answers[id]
    ELSE /\ tt.page = f.current_page + 1
         /\ tt.page <= f.total_pages
         /\ tt.scroll

\* C23: a submission of a page that is not the last one leaves the page
\* index and the other answers alone when an item of the page is blank, and
\* otherwise moves to the next page, which exists, and sets the scroll
\* flag; the page index never moves past a page with a blank item.
ClaimC23 ==
    [][/\ (pc = "shown" /\ form'.submitted /\ form'.current_page # form'.total_pages)
            => SubmissionAsClaimed(session_state, session_state', form')
       /\ (pc # "start" /\ session_state'.page > session_state.page)
            => \A id \in ShownIds(form', session_state.page) :
                    ~BlankIn(form'.cfg, session_state'.answers, id)
      ]_vars

-----------------------------------------------------------------------------
(* _total_pages, _page_window and _validate_answers called directly         *)

MaxPagedItems == 6
MaxPagedSize == 3

\* A scale of n items with ids 1..n.
PagedData(n) ==
    [name |-> "Escala", answer_options |-> <<BLANK, "Sim">>,
     items |-> [i \in 1..n |-> i]]

PagedCfg(ps) ==
    [page_size |-> ps, allow_blank |-> TRUE, blank_sentinel |-> BLANK,
     show_id_badge |-> TRUE, test_prefill |-> FALSE]

\* No call made yet: form holds the arguments; the stored answers give
\* every item an answer or the blank sentinel.
InitPages ==
    /\ scale = BaseScale /\ answers = EmptyMap /\ use_item_mean = TRUE
    /\ facet_arg = "" /\ norm_group = <<>>
    /\ pc = "start" /\ exc = ""
    /\ facet_stats = <<>> /\ rows = <<>> /\ classif = <<>>
    /\ resolved = NoParams /\ options = NoOptions
    /\ base_value = PyNone /\ z_value = PyNone /\ percentile = PyNone
    /\ mean_for_z_out = TRUE
    /\ history = <<>>
    /\ \E n \in 0..MaxPagedItems, ps \in 1..MaxPagedSize :
          /\ form = [NoForm EXCEPT !.data = PagedData(n), !.cfg = PagedCfg(ps)]
          /\ \E blanks \in SUBSET (1..n) :
                /\ Cardinality(blanks) <= 2
                /\ session_state =
                      [NoSession EXCEPT
                          !.has_answers = TRUE,
                          !.answers = [id \in 1..n |->
                                          IF id \in blanks THEN BLANK ELSE "Sim"]]

\* _total_pages(len(items), page_size): the result goes to form.total_pages.
CallTotalPages ==
    /\ pc = "start"
    /\ form' = [form EXCEPT !.total_pages =
                    _total_pages(Len(form.data.items), form.cfg.page_size)]
    /\ pc' = "counted"
    /\ UNCHANGED <<session_state, scale, answers, norm_group, use_item_mean,
                   facet_arg, exc, facet_stats, rows, classif, resolved,
                   options, base_value, z_value, percentile, mean_for_z_out,
                   history>>

\* _page_window for each page 1..total_pages in turn: history collects the
\* windows.
CallPageWindow ==
    /\ pc = "counted"
    /\ Len(history) < form.total_pages
    /\ history' = Append(history,
                         _page_window(Len(history) + 1, form.cfg.page_size,
                                      Len(form.data.items)))
    /\ UNCHANGED <<session_state, form, scale, answers, norm_group,
                   use_item_mean, facet_arg, pc, exc, facet_stats, rows,
                   classif, resolved, options, base_value, z_value, percentile,
                   mean_for_z_out>>

\* _validate_answers on the whole scale: the report goes to rows.
CallValidateAnswers ==
    /\ pc = "counted"
    /\ Len(history) = form.total_pages
    /\ rows' = _validate_answers(form.cfg, form.data, session_state.answers,
                                 Range(form.data.items))
    /\ pc' = "validated"
    /\ UNCHANGED <<session_state, form, scale, answers, norm_group,
                   use_item_mean, facet_arg, exc, facet_stats, classif,
                   resolved, options, base_value, z_value, percentile,
                   mean_for_z_out, history>>

NextPages ==
    \/ CallTotalPages
    \/ CallPageWindow
    \/ CallValidateAnswers

SpecPages == InitPages /\ [][NextPages]_vars

-----------------------------------------------------------------------------
(* Properties of the pagination functions (SpecPages)                       *)

\* ceil(n / d) for n >= 0 and d >= 1: the least k with k * d >= n.
CeilDiv(n, d) == CHOOSE k \in 0..n : k * d >= n /\ \A j \in 0..(k - 1) : j * d < n

\* The 0-based indices of the slice [start:end].
WindowIndices(w) == {i \in 0..MaxPagedItems + MaxPagedSize : w.start <= i /\ i < w.end}

\* C25: _total_pages is max(1, ceil(n_items / page_size)); the windows of
\* the pages 1..total_pages are consecutive, pairwise disjoint and cover
\* exactly the indices 0..n_items-1; the page _validate_answers reports for
\* a missing item is the page whose window holds the item.
TheoremC25 ==
    /\ pc # "start" =>
          form.total_pages =
              Max2(1, CeilDiv(Len(form.data.items), form.cfg.page_size))
    /\ \A p \in 1..Len(history) :
          /\ history[p].start = IF p = 1 THEN 0 ELSE history[p - 1].end
          /\ history[p].start <= history[p].end
          /\ \A q \in 1..Len(history) :
                p # q => WindowIndices(history[p]) \cap WindowIndices(history[q]) = {}
    /\ (pc # "start" /\ Len(history) = form.total_pages) =>
          UNION {WindowIndices(history[p]) : p \in 1..Len(history)}
              = 0..(Len(form.data.items) - 1)
    /\ pc = "validated" =>
          /\ {rows[i].Item : i \in 1..Len(rows)}
                = {id \in Range(form.data.items) :
                      session_state.answers[id] = BLANK}
          /\ \A i \in 1..Len(rows) :
                /\ rows[i].Pagina \in 1..form.total_pages
                /\ (rows[i].Item - 1) \in WindowIndices(history[rows[i].Pagina])

\* A scale whose last page is not full, with a missing item reported on a
\* page after the first.
WitnessC25 ==
    /\ pc = "validated"
    /\ form.total_pages >= 3
    /\ Len(form.data.items) % form.cfg.page_size # 0
    /\ \E i \in 1..Len(rows) : rows[i].Pagina >= 2

====
